---- MODULE Spec2Model ----
(***************************************************************************)
(* Rate-limit check-and-increment strategies of kv-evaluation and the      *)
(* benchmark harness that drives them.  Each program of the repository     *)
(* (main8 / main3 / main4 / main / main7) is one specification over the     *)
(* same variables: the remote store, and for every worker                   *)
(* goroutine its position, its loop index and the locals of the call it    *)
(* is executing.  One action is one command sent to the store (the store   *)
(* executes commands one at a time) together with the local computation    *)
(* that follows it.                                                        *)
(***************************************************************************)
EXTENDS Integers, Sequences, FiniteSets, TLC

VARIABLES
    store,        \* the remote store: key -> value
    pc,           \* worker -> position in the harness loop / the call
    j,            \* worker -> loop index of the harness loop (calls finished)
    loc,          \* worker -> locals of the call in progress
    latencyChan,  \* number of latency samples sent to the channel
    accepted,     \* history: total amount of the calls that returned success
    rejected,     \* history: calls that returned the limit outcome
    failed,       \* history: calls that returned another error
    faults,       \* store errors injected so far
    amounts,      \* the token amounts the callers of this run may pass
    ctx           \* the context the callers pass: "live" or "cancelled"

vars == <<store, pc, j, loc, latencyChan, accepted, rejected, failed, faults, amounts, ctx>>

\* What only the worker loop of a harness changes.
harness == <<j, latencyChan, accepted, rejected, failed>>

\* ------------------------------------------------------------------ bounds
\* main8, main7: worker goroutines (10 in the source) and calls per worker
\* (100 in the source).
numRoutines == 2
updatesPerRoutine == 3
\* main3: its own numRoutines (10), and the calls the goroutines start
\* between them (10 * 100).
numRoutines3 == 2
calls3 == 2
\* main4: goroutines (10), updates per goroutine (10), initial.Limit (100).
numGoroutines == 2
updatesPerGoroutine == 3
initialLimit == 2
\* main: goroutines (10), and the calls they start between them (10 * 100).
lockRoutines == 2
lockCalls == 2
\* main7: limit2 (500 in the source) and calls per worker (100).
limit2 == 2
updatesPerRoutine7 == 2
\* main5: goroutines (10 in the source), calls made by all goroutines together
\* (1000), the limit (500) and the Olric errors injected per run.
numRoutines5 == 2
calls5 == 2
limit5 == 2
MaxFaults5 == 5
\* main6: goroutines (10 in the source), calls per goroutine (100) and the
\* limit (1000).
numRoutines6 == 2
updatesPerRoutine6 == 3
limit6 == 2
\* The latency statistics: the largest sample, the largest latency, and
\* time.Hour, in the time unit of the model.
MaxSamples == 3
MaxLatency == 4
Hour == 3
\* The backoff: rand.Float64() yields n / JitterSteps for n in 0..JitterSteps-1.
JitterSteps == 32
\* The time-to-live the script sets (24*60*60 seconds in the source), in the
\* time unit of the model, and the calls main8's workers start between them
\* when times-to-live are followed.
TTLSeconds == 2
calls7T == 3
\* Transaction errors (begin, lock, get, commit) injected per run of main4.
MaxTxnFaults == 3
\* Limit of the Atomic-Script counters (500 in the source).
limit3 == 2
\* Largest amount a caller passes when amounts are not fixed to 1.
MaxTokens == 2
\* Store errors (network, quorum) injected per run.
MaxFaults == 1

Workers == 1..numRoutines
\* A stored value is <<v>>; a key that does not exist holds <<>>.
Absent == <<>>
Present(v) == <<v>>
\* A stored value that does not decode (not an integer, not the JSON of a
\* state): told apart from <<v>> by its length; its first element is the 0
\* that a failed conversion yields.
Malformed == <<0, 0>>

\* ------------------------------------------------------------ the harness
\* The worker loop shared by main8, main7, main5, main: a failed call is
\* logged and the loop continues; a successful one sends a latency sample.
IsLimitErr(e) ==
    e \in {"rate limit exceeded", "sliding window limit exceeded",
           "fixed window limit exceeded"}

HarnessInit(W) ==
    /\ pc = [w \in W |-> "idle"]
    /\ j = [w \in W |-> 0]
    /\ latencyChan = 0
    /\ accepted = 0
    /\ rejected = 0
    /\ failed = 0
    /\ faults = 0
    /\ amounts \in {{1}, 1..MaxTokens}
    /\ ctx = "live"

\* The rest of the loop body once the call has returned err:
\*   if err != nil { log.Printf(...); continue }
\*   latencyChan <- time.Since(start)
\* and the loop's j++.
WorkerReturn(w, err) ==
    /\ pc' = [pc EXCEPT ![w] = "idle"]
    /\ j' = [j EXCEPT ![w] = @ + 1]
    /\ latencyChan' = IF err = "nil" THEN latencyChan + 1 ELSE latencyChan
    /\ accepted' = IF err = "nil" THEN accepted + loc[w].tokens ELSE accepted
    /\ rejected' = IF IsLimitErr(err) THEN rejected + 1 ELSE rejected
    /\ failed' = IF err # "nil" /\ ~IsLimitErr(err) THEN failed + 1 ELSE failed

\* The calls the workers W have started so far: those that have returned and
\* those in progress.
RECURSIVE CallsReturned(_)
CallsReturned(W) ==
    IF W = {} THEN 0
    ELSE LET w == CHOOSE x \in W : TRUE IN j[w] + CallsReturned(W \ {w})
CallsStartedBy(W) ==
    CallsReturned(W) + Cardinality({w \in W : pc[w] # "idle"})

\* wg.Wait() has returned: every worker has left its loop.
AllDone(M) == \A w \in DOMAIN pc : pc[w] = "idle" /\ j[w] = M

\* ------------------------------------------------- Atomic-Script (main8)
slidingKey == "ratelimit:sliding"
fixedKey == "ratelimit:fixed"

\* GET of a key that does not exist gives nil, which the script turns to 0.
ToNumber(v) == IF v = Absent THEN 0 ELSE v[1]

\* The Lua script: the new store and the tuple {sliding, fixed, flag}.
ScriptBody(st, increment, lim, exceeded) ==
    LET sliding_val == ToNumber(st[slidingKey])
        fixed_val == ToNumber(st[fixedKey])
    IN  IF exceeded
        THEN [st |-> st, result |-> <<sliding_val, fixed_val, 0>>]
        ELSE [st |-> [st EXCEPT ![slidingKey] = Present(sliding_val + increment),
                                ![fixedKey] = Present(fixed_val + increment)],
              result |-> <<sliding_val + increment, fixed_val + increment, 1>>]

\* Mutant: the script compares the counters before adding the increment.
checkAndIncrementScript_NoIncrementInCheck(st, increment, lim) ==
    ScriptBody(st, increment, lim,
               ToNumber(st[slidingKey]) > lim \/ ToNumber(st[fixedKey]) > lim)

\* Mutant: the script rejects a request that lands exactly on the limit.
checkAndIncrementScript_StrictCheck(st, increment, lim) ==
    ScriptBody(st, increment, lim,
               \/ ToNumber(st[slidingKey]) + increment >= lim
               \/ ToNumber(st[fixedKey]) + increment >= lim)

\* Mutant: the script adds the increment to the sliding counter before it
\* checks, and leaves it there when it rejects.
checkAndIncrementScript_WritesOnReject(st, increment, lim) ==
    IF \/ ToNumber(st[slidingKey]) + increment > lim
       \/ ToNumber(st[fixedKey]) + increment > lim
    THEN [st |-> [st EXCEPT ![slidingKey] = Present(ToNumber(@) + increment)],
          result |-> <<ToNumber(st[slidingKey]) + increment,
                       ToNumber(st[fixedKey]), 0>>]
    ELSE ScriptBody(st, increment, lim, FALSE)

checkAndIncrementScript(st, increment, lim) ==
    ScriptBody(st, increment, lim,
               \/ ToNumber(st[slidingKey]) + increment > lim
               \/ ToNumber(st[fixedKey]) + increment > lim)

Init7 ==
    /\ HarnessInit(Workers)
    /\ store = [k \in {slidingKey, fixedKey} |-> Present(0)]
    /\ loc = [w \in Workers |-> [tokens |-> 0]]

\* The worker calls updateLimiterState7(ctx, rdb, userID, endpointID, tokens).
Call7(w) ==
    /\ pc[w] = "idle"
    /\ j[w] < updatesPerRoutine
    /\ \E t \in amounts : loc' = [loc EXCEPT ![w] = [tokens |-> t]]
    /\ pc' = [pc EXCEPT ![w] = "script"]
    /\ UNCHANGED <<store, j, latencyChan, accepted, rejected, failed, faults, amounts, ctx>>

\* checkAndIncrementScript.Run(...) executed by the server in one step, the
\* parse of its result, and the return to the worker loop.
updateLimiterState7(w) ==
    /\ pc[w] = "script"
    /\ LET r == checkAndIncrementScript(store, loc[w].tokens, limit3)
           err == IF r.result[3] # 1 THEN "rate limit exceeded" ELSE "nil"
       IN  /\ store' = r.st
           /\ loc' = [loc EXCEPT ![w] = [tokens |-> 0]]
           /\ WorkerReturn(w, err)
    /\ UNCHANGED <<faults, amounts, ctx>>

\* Run returns err != nil: the script did not execute.
ScriptError7(w) ==
    /\ pc[w] = "script"
    /\ faults < MaxFaults
    /\ faults' = faults + 1
    /\ loc' = [loc EXCEPT ![w] = [tokens |-> 0]]
    /\ WorkerReturn(w, "failed to run script")
    /\ UNCHANGED <<store, amounts, ctx>>

Next7 ==
    \/ \E w \in Workers : Call7(w)
    \/ \E w \in Workers : updateLimiterState7(w)
    \/ \E w \in Workers : ScriptError7(w)

Spec7 == Init7 /\ [][Next7]_vars

\* C1: under the Atomic-Script strategy neither the sliding nor the fixed
\* counter exceeds limit3 in any reachable state.
C1_ScriptNeverExceedsLimit ==
    /\ ToNumber(store[slidingKey]) <= limit3
    /\ ToNumber(store[fixedKey]) <= limit3

\* C1 witness: both counters stand at the limit, a call was rejected and
\* another call is in flight.
C1_Witness ==
    /\ store[slidingKey] = Present(limit3)
    /\ store[fixedKey] = Present(limit3)
    /\ rejected > 0
    /\ \E w \in Workers : pc[w] = "script"

\* C6: with every call of amount 1, limit3 <= N*M and no call lost to a
\* store error, once all N*M calls have returned exactly limit3 of them
\* succeeded, exactly N*M - limit3 were rejected, and both counters are limit3.
C6_ScriptScenarioExact ==
    (/\ AllDone(updatesPerRoutine)
     /\ amounts = {1}
     /\ faults = 0
     /\ limit3 <= numRoutines * updatesPerRoutine)
    => /\ latencyChan = limit3
       /\ rejected = numRoutines * updatesPerRoutine - limit3
       /\ store[slidingKey] = Present(limit3)
       /\ store[fixedKey] = Present(limit3)

\* C6 witness: the run of amount-1 calls has ended without a store error and
\* at least one call was rejected.
C6_Witness ==
    /\ AllDone(updatesPerRoutine)
    /\ amounts = {1} /\ faults = 0 /\ rejected > 0 /\ latencyChan > 0

\* --------------------------------------------- the window model (no I/O)
\* Largest window limit of a stored LimiterState (1000 in main3, 500 in main).
MaxLimit == 2
WindowLimits == {MaxLimit - 1, MaxLimit}

\* type SlidingWindow / FixedWindow / LimiterState
Window(c, l, t) == [Count |-> c, Limit |-> l, StartTime |-> t]
LimiterState(sw, fw) == [SlidingWindows |-> sw, FixedWindow |-> fw]

\* json.Marshal: the document carries the json field names of the struct tags.
MarshalWindow(win) ==
    [count |-> win.Count, limit |-> win.Limit, start_time |-> win.StartTime]
Marshal(state) ==
    [sliding_windows |->
        [i \in DOMAIN state.SlidingWindows |-> MarshalWindow(state.SlidingWindows[i])],
     fixed_window |->
        [i \in DOMAIN state.FixedWindow |-> MarshalWindow(state.FixedWindow[i])]]

\* json.Unmarshal into a LimiterState.
UnmarshalWindow(d) == Window(d.count, d.limit, d.start_time)
Unmarshal(doc) ==
    LimiterState(
        [i \in DOMAIN doc.sliding_windows |-> UnmarshalWindow(doc.sliding_windows[i])],
        [i \in DOMAIN doc.fixed_window |-> UnmarshalWindow(doc.fixed_window[i])])

\* Mutant: the check loop runs over the sliding windows only.
CheckLimits_SlidingOnly(state, tokens) ==
    IF \E i \in DOMAIN state.SlidingWindows :
          state.SlidingWindows[i].Count + tokens > state.SlidingWindows[i].Limit
    THEN "sliding"
    ELSE "ok"

\* Mutant: the check compares the stored Count alone with the Limit.
CheckLimits_IgnoresTokens(state, tokens) ==
    IF \E i \in DOMAIN state.SlidingWindows :
          state.SlidingWindows[i].Count > state.SlidingWindows[i].Limit
    THEN "sliding"
    ELSE IF \E i \in DOMAIN state.FixedWindow :
          state.FixedWindow[i].Count > state.FixedWindow[i].Limit
    THEN "fixed"
    ELSE "ok"

\* "Check limits": the two loops; which loop, if any, found a window that the
\* tokens would push over its limit.
CheckLimits(state, tokens) ==
    IF \E i \in DOMAIN state.SlidingWindows :
          state.SlidingWindows[i].Count + tokens > state.SlidingWindows[i].Limit
    THEN "sliding"
    ELSE IF \E i \in DOMAIN state.FixedWindow :
          state.FixedWindow[i].Count + tokens > state.FixedWindow[i].Limit
    THEN "fixed"
    ELSE "ok"

\* Mutant: the update drops the fixed windows.
UpdateCounters_DropsFixed(state, tokens) ==
    LimiterState(
        [i \in DOMAIN state.SlidingWindows |->
            [state.SlidingWindows[i] EXCEPT !.Count = @ + tokens]],
        <<>>)

\* "Update counters": every window's Count is raised by tokens.
UpdateCounters(state, tokens) ==
    LimiterState(
        [i \in DOMAIN state.SlidingWindows |->
            [state.SlidingWindows[i] EXCEPT !.Count = @ + tokens]],
        [i \in DOMAIN state.FixedWindow |->
            [state.FixedWindow[i] EXCEPT !.Count = @ + tokens]])

\* The windows of a stored document, sliding then fixed.
DocWindows(doc) ==
    {doc.sliding_windows[i] : i \in DOMAIN doc.sliding_windows}
        \cup {doc.fixed_window[i] : i \in DOMAIN doc.fixed_window}

\* Every persisted window count of key k is within its limit.
CountsWithinLimits(k) ==
    store[k] # Absent => \A d \in DocWindows(store[k][1]) : d.count <= d.limit

key == "ratelimit:test_user:test_endpoint"

\* The state the harness stores before it starts the workers: one sliding
\* and one fixed window, Count 0.
InitialStates ==
    {LimiterState(<<Window(0, ls, "t0")>>, <<Window(0, lf, "t0")>>) :
        ls \in WindowLimits, lf \in WindowLimits}

\* ----------------------------------------------- Optimistic-Retry (main3)
Workers3 == 1..numRoutines3

\* The locals of a call that has not read yet: the amount, the error of the
\* last pass (of the last call, between calls), the bytes read, the bytes to
\* write, whether the WATCHed key was modified, whether the limit check of
\* this call has failed.  watchedAt and readAt are history: the number of
\* tokens committed by all callers when this pass sent its WATCH and when it
\* read the key.
Locals3(t, e) ==
    [tokens |-> t, err |-> e, val |-> Absent, serialized |-> Absent,
     dirty |-> FALSE, checkFailed |-> FALSE, watchedAt |-> 0, readAt |-> 0]

Init3 ==
    /\ HarnessInit(Workers3)
    /\ \E v \in {Present(Marshal(st)) : st \in InitialStates} \cup {Absent} :
          store = [k \in {key} |-> v]
    /\ loc = [w \in Workers3 |-> Locals3(0, "nil")]

\* The worker calls UpdateLimiterState3(rdb, userID, endpointID, tokens), which
\* enters its loop: rdb.Watch(ctx, fn, key) sends WATCH key.
Call3(w) ==
    /\ pc[w] = "idle"
    /\ CallsStartedBy(Workers3) < calls3
    /\ \E t \in amounts :
          loc' = [loc EXCEPT ![w] =
                    [Locals3(t, "nil") EXCEPT !.watchedAt = accepted]]
    /\ pc' = [pc EXCEPT ![w] = "get"]
    /\ UNCHANGED <<store, j, latencyChan, accepted, rejected, failed, faults, amounts, ctx>>

\* A further pass of the loop: rdb.Watch(ctx, fn, key) sends WATCH key again.
Watch3(w) ==
    /\ pc[w] = "watch"
    /\ loc' = [loc EXCEPT ![w].dirty = FALSE, ![w].watchedAt = accepted]
    /\ pc' = [pc EXCEPT ![w] = "get"]
    /\ UNCHANGED <<store, j, latencyChan, accepted, rejected, failed, faults, amounts, ctx>>

\* Mutant: the default state has one sliding and one fixed window.
DefaultState3_OneWindowEach ==
    LimiterState(<<Window(0, MaxLimit, "now")>>, <<Window(0, MaxLimit, "now")>>)

\* The state UpdateLimiterState3 creates for a key that does not exist:
\* SlidingWindows: []SlidingWindow{}, FixedWindow: []FixedWindow{}.
DefaultState3 == LimiterState(<<>>, <<>>)

\* tx.Get, the default state for a missing key, the limit check, the update
\* of the counters and the serialisation.  A failed check returns
\* redis.TxFailedErr from the closure (whose locals val, state, serialized go
\* out of scope), and the loop of UpdateLimiterState3 continues on that error.
Get3(w) ==
    /\ pc[w] = "get"
    /\ LET val == store[key]
           state == IF val = Absent THEN DefaultState3
                    ELSE Unmarshal(val[1])
       IN  IF CheckLimits(state, loc[w].tokens) # "ok"
           THEN /\ loc' = [loc EXCEPT ![w] =
                            [Locals3(loc[w].tokens, "TxFailedErr")
                                EXCEPT !.checkFailed = TRUE]]
                /\ pc' = [pc EXCEPT ![w] = "watch"]
           ELSE /\ loc' = [loc EXCEPT
                      ![w].val = val,
                      ![w].readAt = accepted,
                      ![w].serialized =
                          Present(Marshal(UpdateCounters(state, loc[w].tokens)))]
                /\ pc' = [pc EXCEPT ![w] = "exec"]
    /\ UNCHANGED <<store, j, latencyChan, accepted, rejected, failed, faults, amounts, ctx>>

\* main3's loop body: the latency sample is sent for every call, before the
\* error is looked at.
WorkerReturn3(w, err) ==
    /\ pc' = [pc EXCEPT ![w] = "idle"]
    /\ j' = [j EXCEPT ![w] = @ + 1]
    /\ latencyChan' = latencyChan + 1
    /\ accepted' = IF err = "nil" THEN accepted + loc[w].tokens ELSE accepted
    /\ failed' = IF err # "nil" THEN failed + 1 ELSE failed
    /\ UNCHANGED rejected

\* tx.Get fails: "redis get error" is returned by the closure and by the call.
GetError3(w) ==
    /\ pc[w] = "get"
    /\ faults < MaxFaults
    /\ faults' = faults + 1
    /\ loc' = [loc EXCEPT ![w] = Locals3(0, "nil")]
    /\ WorkerReturn3(w, "redis get error")
    /\ UNCHANGED <<store, amounts, ctx>>

\* Mutant: EXEC of a WATCHed transaction is always aborted.
ExecCommits_Never(w) == FALSE

\* Mutant: the store has no conditional write; EXEC always commits.
ExecCommits_NoWatch(w) == TRUE

\* EXEC of a WATCHed transaction commits iff the key was not modified since
\* the WATCH.
ExecCommits(w) == ~loc[w].dirty

\* tx.TxPipelined: MULTI, SET key serialized, EXEC.  A commit modifies the
\* key under every other caller's WATCH and the call returns nil; an aborted
\* EXEC is TxFailedErr, on which the loop continues.
Exec3(w) ==
    /\ pc[w] = "exec"
    /\ IF ExecCommits(w)
       THEN /\ store' = [store EXCEPT ![key] = loc[w].serialized]
            /\ loc' = [v \in Workers3 |->
                         IF v = w THEN Locals3(0, "nil")
                         ELSE IF pc[v] \in {"get", "exec"}
                              THEN [loc[v] EXCEPT !.dirty = TRUE]
                              ELSE loc[v]]
            /\ WorkerReturn3(w, "nil")
       ELSE /\ loc' = [loc EXCEPT ![w] = Locals3(loc[w].tokens, "TxFailedErr")]
            /\ pc' = [pc EXCEPT ![w] = "watch"]
            /\ UNCHANGED <<store, j, latencyChan, accepted, rejected, failed>>
    /\ UNCHANGED <<faults, amounts, ctx>>

Next3 ==
    \/ \E w \in Workers3 : Call3(w)
    \/ \E w \in Workers3 : Watch3(w)
    \/ \E w \in Workers3 : Get3(w)
    \/ \E w \in Workers3 : GetError3(w)
    \/ \E w \in Workers3 : Exec3(w)

Spec3 == Init3 /\ [][Next3]_vars

\* C2: under Optimistic-Retry every persisted window count stays within its
\* limit, and a call's write commits only when the key still holds the value
\* that call read.
C2_WatchKeepsCountsWithinLimits ==
    /\ CountsWithinLimits(key)
    /\ \A w \in Workers3 :
          (pc[w] = "exec" /\ ExecCommits(w)) => loc[w].val = store[key]

\* C2 witness: a call's EXEC was aborted by a concurrent commit and a window
\* now stands at its limit.
C2_Witness ==
    /\ store[key] # Absent
    /\ \E d \in DocWindows(store[key][1]) : d.count = d.limit
    /\ \E w \in Workers3 :
          pc[w] = "watch" /\ loc[w].err = "TxFailedErr" /\ ~loc[w].checkFailed

\* The Go scheduler runs every goroutine that can take a step, and the store
\* answers every command: each worker's next step is eventually taken.
Step3(w) == Call3(w) \/ Watch3(w) \/ Get3(w) \/ Exec3(w)
Spec3Fair == Spec3 /\ \A w \in Workers3 : WF_vars(Step3(w))

\* C12: every UpdateLimiterState3 call terminates (its retries are bounded and
\* end in a retry-exhausted failure): a call in progress eventually returns.
C12_EveryCallTerminates ==
    \A w \in Workers3 : (pc[w] # "idle") ~> (pc[w] = "idle")

\* C10: a call whose limit check failed returns the rejection to its caller
\* and never starts another attempt (stated for UpdateLimiterState3: no call
\* is at the start of a WATCH pass after its limit check has failed).
C10_RejectionIsTerminal ==
    \A w \in Workers3 : ~(loc[w].checkFailed /\ pc[w] \in {"watch", "get", "exec"})

\* ------------------------------------- Pessimistic-Transaction (main4)
Goroutines == 1..numGoroutines
key8 == "limiter_state"
\* The pessimistic lock TiKV holds on the key for one transaction.
lock8 == "limiter_state#lock"

\* type LimiterState2 and its JSON document.
LimiterState2(c, l) == [Count |-> c, Limit |-> l]
Marshal2(state) == [count |-> state.Count, limit |-> state.Limit]
Unmarshal2(doc) == LimiterState2(doc.count, doc.limit)

Locals8(a) == [attempt |-> a, newData |-> Absent]

\* main4 stores {Count: 0, Limit: 100} before it starts the goroutines; the
\* function also handles a key that is not there.
Init8 ==
    /\ HarnessInit(Goroutines)
    /\ \E v \in {Present(Marshal2(LimiterState2(0, initialLimit))), Absent} :
          store = [k \in {key8, lock8} |-> IF k = key8 THEN v ELSE Absent]
    /\ loc = [w \in Goroutines |-> Locals8(0)]

\* main4's loop body: break on an error, break when the limit was reached.
WorkerReturn8(w, limitReached, err) ==
    /\ pc' = [pc EXCEPT ![w] = IF err # "nil" \/ limitReached THEN "stopped" ELSE "idle"]
    /\ j' = [j EXCEPT ![w] = IF err # "nil" \/ limitReached THEN @ ELSE @ + 1]
    /\ accepted' = IF err = "nil" /\ ~limitReached THEN accepted + 1 ELSE accepted
    /\ rejected' = IF err = "nil" /\ limitReached THEN rejected + 1 ELSE rejected
    /\ failed' = IF err # "nil" THEN failed + 1 ELSE failed
    /\ loc' = [loc EXCEPT ![w] = Locals8(0)]
    /\ UNCHANGED latencyChan

\* Mutant: ending the transaction leaves its lock on the key.
ReleaseLock8_Leak(st, w) == st

\* txn.Rollback() / the end of a commit: the transaction's lock is released.
ReleaseLock8(st, w) ==
    IF st[lock8] = Present(w) THEN [st EXCEPT ![lock8] = Absent] ELSE st

\* The goroutine calls updateLimiterState8(ctx, client, key): attempt := 1.
Call8(w) ==
    /\ pc[w] = "idle"
    /\ j[w] < updatesPerGoroutine
    /\ loc' = [loc EXCEPT ![w] = Locals8(1)]
    /\ pc' = [pc EXCEPT ![w] = "begin"]
    /\ UNCHANGED <<store, harness, faults, amounts, ctx>>

\* client.Begin() and txn.SetPessimistic(true).
Begin8(w) ==
    /\ pc[w] = "begin"
    /\ pc' = [pc EXCEPT ![w] = "lock"]
    /\ UNCHANGED <<store, loc, harness, faults, amounts, ctx>>

\* client.Begin() fails: "begin txn failed".
BeginError8(w) ==
    /\ pc[w] = "begin"
    /\ faults < MaxTxnFaults
    /\ faults' = faults + 1
    /\ WorkerReturn8(w, FALSE, "begin txn failed")
    /\ UNCHANGED <<store, amounts, ctx>>

\* Mutant: the lock request is granted while another transaction holds the key.
LockGranted8_NoWait(w) == TRUE

\* LockKeysWithWaitTime(ctx, kv.LockAlwaysWait, key) waits until no other
\* transaction holds the lock of the key.
LockGranted8(w) == store[lock8] = Absent

Lock8(w) ==
    /\ pc[w] = "lock"
    /\ LockGranted8(w)
    /\ store' = [store EXCEPT ![lock8] = Present(w)]
    /\ pc' = [pc EXCEPT ![w] = "get"]
    /\ UNCHANGED <<loc, harness, faults, amounts, ctx>>

\* The lock request fails: Rollback, "failed to lock key".
LockError8(w) ==
    /\ pc[w] = "lock"
    /\ faults < MaxTxnFaults
    /\ faults' = faults + 1
    /\ store' = ReleaseLock8(store, w)
    /\ WorkerReturn8(w, FALSE, "failed to lock key")
    /\ UNCHANGED <<amounts, ctx>>

\* Mutant: the limit check lets a count that stands at the limit through.
LimitReached8_OffByOne(state) == state.Count > state.Limit

\* "Check rate limit": state.Count >= state.Limit.
LimitReached8(state) == state.Count >= state.Limit

\* txn.Get, the nil check, the decode, the limit check, state.Count++, the
\* encode and txn.Set (which buffers the write in the transaction).  The
\* key-missing and limit-reached paths roll the transaction back.
Get8(w) ==
    /\ pc[w] = "get"
    /\ LET value == store[key8]
       IN  IF value = Absent
           THEN /\ store' = ReleaseLock8(store, w)
                /\ WorkerReturn8(w, FALSE, "key not found")
           ELSE IF LimitReached8(Unmarshal2(value[1]))
           THEN /\ store' = ReleaseLock8(store, w)
                /\ WorkerReturn8(w, TRUE, "nil")
           ELSE /\ loc' = [loc EXCEPT ![w].newData =
                            Present(Marshal2([Unmarshal2(value[1])
                                                EXCEPT !.Count = @ + 1]))]
                /\ pc' = [pc EXCEPT ![w] = "commit"]
                /\ UNCHANGED <<store, harness>>
    /\ UNCHANGED <<faults, amounts, ctx>>

\* txn.Get fails: Rollback, "failed to get current value".
GetError8(w) ==
    /\ pc[w] = "get"
    /\ faults < MaxTxnFaults
    /\ faults' = faults + 1
    /\ store' = ReleaseLock8(store, w)
    /\ WorkerReturn8(w, FALSE, "failed to get current value")
    /\ UNCHANGED <<amounts, ctx>>

\* json.Unmarshal of the value read fails: Rollback, "failed to decode JSON".
DecodeError8(w) ==
    /\ pc[w] = "get"
    /\ store[key8] # Absent
    /\ faults < MaxTxnFaults
    /\ faults' = faults + 1
    /\ store' = ReleaseLock8(store, w)
    /\ WorkerReturn8(w, FALSE, "failed to decode JSON")
    /\ UNCHANGED <<amounts, ctx>>

\* json.Marshal or txn.Set fails after a passed check: Rollback, "failed to
\* encode JSON" / "failed to set new value".
SetError8(w) ==
    /\ pc[w] = "get"
    /\ store[key8] # Absent
    /\ ~LimitReached8(Unmarshal2(store[key8][1]))
    /\ faults < MaxTxnFaults
    /\ faults' = faults + 1
    /\ store' = ReleaseLock8(store, w)
    /\ WorkerReturn8(w, FALSE, "failed to set new value")
    /\ UNCHANGED <<amounts, ctx>>

\* txn.Commit succeeds: the buffered write is applied, the lock is released,
\* the call returns (false, nil).
Commit8(w) ==
    /\ pc[w] = "commit"
    /\ store' = ReleaseLock8([store EXCEPT ![key8] = loc[w].newData], w)
    /\ WorkerReturn8(w, FALSE, "nil")
    /\ UNCHANGED <<faults, amounts, ctx>>

\* const maxRetries = 3 of updateLimiterState8.
maxRetries8 == 3

\* Mutant: a write conflict is retried whatever the number of attempts made.
MayRetry8_Always(attempt) == TRUE

\* tikverr.IsErrWriteConflict(err) && attempt < maxRetries, for a conflict.
MayRetry8(attempt) == attempt < maxRetries8

\* txn.Commit fails with a write conflict: Rollback; a new attempt when
\* attempt < maxRetries, else "transaction commit failed".
CommitConflict8(w) ==
    /\ pc[w] = "commit"
    /\ faults < MaxTxnFaults
    /\ faults' = faults + 1
    /\ store' = ReleaseLock8(store, w)
    /\ IF MayRetry8(loc[w].attempt)
       THEN /\ loc' = [loc EXCEPT ![w] = Locals8(loc[w].attempt + 1)]
            /\ pc' = [pc EXCEPT ![w] = "begin"]
            /\ UNCHANGED harness
       ELSE WorkerReturn8(w, FALSE, "transaction commit failed")
    /\ UNCHANGED <<amounts, ctx>>

\* txn.Commit fails with another error: Rollback, "transaction commit failed".
CommitError8(w) ==
    /\ pc[w] = "commit"
    /\ faults < MaxTxnFaults
    /\ faults' = faults + 1
    /\ store' = ReleaseLock8(store, w)
    /\ WorkerReturn8(w, FALSE, "transaction commit failed")
    /\ UNCHANGED <<amounts, ctx>>

Next8 ==
    \/ \E w \in Goroutines : Call8(w)
    \/ \E w \in Goroutines : Begin8(w)
    \/ \E w \in Goroutines : BeginError8(w)
    \/ \E w \in Goroutines : Lock8(w)
    \/ \E w \in Goroutines : LockError8(w)
    \/ \E w \in Goroutines : Get8(w)
    \/ \E w \in Goroutines : GetError8(w)
    \/ \E w \in Goroutines : DecodeError8(w)
    \/ \E w \in Goroutines : SetError8(w)
    \/ \E w \in Goroutines : Commit8(w)
    \/ \E w \in Goroutines : CommitConflict8(w)
    \/ \E w \in Goroutines : CommitError8(w)

Spec8 == Init8 /\ [][Next8]_vars

\* The committed Count of the limiter state (0 while the key is missing).
Count8 == IF store[key8] = Absent THEN 0 ELSE store[key8][1].count

\* C3: under Pessimistic-Transaction every committed state has Count <= Limit,
\* and each committed transaction raises Count by exactly 1 over the value
\* committed immediately before it (and nothing else changes the state).
C3_PessimisticCommitsAddOne ==
    /\ [](store[key8] # Absent => Count8 <= store[key8][1].limit)
    /\ [][/\ accepted' = accepted + 1 => Count8' = Count8 + 1
          /\ store'[key8] # store[key8] => accepted' = accepted + 1]_vars

\* C3 witness: the count has been committed up to the limit while another
\* transaction holds the lock and a third call waits for it.
C3_Witness ==
    /\ store[key8] # Absent
    /\ Count8 = store[key8][1].limit
    /\ accepted = initialLimit
    /\ \E w \in Goroutines : pc[w] = "get"

\* The positions of a call at which its transaction is open (begun and not
\* yet committed or rolled back).
InTxn8(w) == pc[w] \in {"lock", "get", "commit"}

\* C16: Pessimistic-Transaction releases its lock on every exit path: every
\* transaction that was begun is ended by Commit or Rollback before the call
\* returns or begins the next attempt (lock-failure, read-failure,
\* key-missing, decode-failure, limit-reached, encode/set-failure,
\* commit-failure and success paths), so no call returns while its
\* transaction still holds the key lock.
C16_LockReleasedOnEveryExit ==
    /\ [](\A w \in Goroutines : store[lock8] = Present(w) => InTxn8(w))
    /\ [][\A w \in Goroutines :
            (InTxn8(w) /\ pc'[w] \in {"idle", "stopped", "begin"})
                => store'[lock8] # Present(w)]_vars

\* C16 witness: calls have returned on the success and on the limit-reached
\* path, the lock is free, and another transaction is about to request it.
C16_Witness ==
    /\ accepted > 0 /\ rejected > 0
    /\ store[lock8] = Absent
    /\ \E w \in Goroutines : pc[w] = "stopped"
    /\ \E w \in Goroutines : pc[w] = "lock"

\* C17: Pessimistic-Transaction retry budget: one updateLimiterState8 call
\* begins at most 3 transactions; it starts a new attempt only after a commit
\* failed with a write conflict and fewer than 3 attempts were made; a write
\* conflict on the 3rd attempt and any non-conflict failure on any attempt are
\* returned as a failure without a further attempt.
C17_RetryBudget ==
    /\ [](\A w \in Goroutines : loc[w].attempt <= 3)
    /\ [][\A w \in Goroutines :
            /\ (InTxn8(w) /\ pc'[w] = "begin")
                  => /\ CommitConflict8(w)
                     /\ loc[w].attempt < 3
                     /\ loc'[w].attempt = loc[w].attempt + 1
            /\ (CommitConflict8(w) /\ loc[w].attempt = 3)
                  => pc'[w] = "stopped" /\ failed' = failed + 1
            /\ (BeginError8(w) \/ LockError8(w) \/ GetError8(w)
                    \/ DecodeError8(w) \/ SetError8(w) \/ CommitError8(w))
                  => pc'[w] = "stopped" /\ failed' = failed + 1]_vars

\* C17 witness: a call is committing its third transaction after two write
\* conflicts.
C17_Witness ==
    \E w \in Goroutines :
        pc[w] = "commit" /\ loc[w].attempt = 3 /\ faults >= 2

\* ----------------------------------- Distributed-Mutex with SetNX (main)
LockRoutines == 1..lockRoutines
lockKey == "lock:ratelimit:test_user:test_endpoint"

\* maxRetries := 5 of updateLimiterStateWithLock.
maxRetries == 5

\* The locals of a call: the amount, the loop variable attempt (in scope
\* inside the retry loop only), the state to write, the error the call is
\* about to return.
LocalsL(t) ==
    [tokens |-> t, attempt |-> 0, serialized |-> Absent, err |-> "nil"]

\* The state created for a key that does not exist: one sliding and one
\* fixed window, Count 0, Limit 500 (the largest limit of the model),
\* StartTime time.Now().
DefaultState ==
    LimiterState(<<Window(0, MaxLimit, "now")>>, <<Window(0, MaxLimit, "now")>>)

\* The calls main's goroutines have started so far.
CallsStarted == CallsStartedBy(LockRoutines)

\* wg.Wait() has returned: every call the goroutines make has returned.
AllDoneL ==
    /\ \A w \in LockRoutines : pc[w] = "idle"
    /\ CallsStarted = lockCalls

InitL ==
    /\ HarnessInit(LockRoutines)
    /\ \E v \in {Present(Marshal(st)) : st \in InitialStates} \cup {Absent} :
          store = [k \in {key, lockKey} |-> IF k = key THEN v ELSE Absent]
    /\ loc = [w \in LockRoutines |-> LocalsL(0)]

\* The loop's attempt++ and its condition attempt < maxRetries: the next
\* lock attempt, or the end of the loop (attempt goes out of scope), after
\* which the function registers the deferred release and goes on to read the
\* state.
NextAttempt(w) ==
    IF loc[w].attempt + 1 < maxRetries
    THEN /\ loc' = [loc EXCEPT ![w].attempt = @ + 1]
         /\ pc' = [pc EXCEPT ![w] = "acquire"]
    ELSE /\ loc' = [loc EXCEPT ![w].attempt = 0]
         /\ pc' = [pc EXCEPT ![w] = "read"]

\* rdb.SetArgs(lockKey, lockValue, {Mode: "NX", Get: true, TTL: 5s}) of a call
\* with locals l, read as the code reads its result: err == nil when this
\* command set the key (break: the loop ends), redis.Nil when the lock key
\* exists (back off).
SetArgsL(w, l) ==
    IF store[lockKey] = Absent
    THEN /\ store' = [store EXCEPT ![lockKey] = Present(w)]
         /\ loc' = [loc EXCEPT ![w] = [l EXCEPT !.attempt = 0]]
         /\ pc' = [pc EXCEPT ![w] = "read"]
    ELSE /\ loc' = [loc EXCEPT ![w] = l]
         /\ pc' = [pc EXCEPT ![w] = "backoff"]
         /\ UNCHANGED store

\* The worker calls updateLimiterStateWithLock(ctx, rdb, userID, endpointID,
\* tokens): the retry loop starts with attempt := 0 and the first SetArgs.
CallL(w) ==
    /\ pc[w] = "idle"
    /\ CallsStarted < lockCalls
    /\ \E t \in amounts : SetArgsL(w, LocalsL(t))
    /\ UNCHANGED <<harness, faults, amounts, ctx>>

\* The SetArgs of a later attempt.
AcquireL(w) ==
    /\ pc[w] = "acquire"
    /\ SetArgsL(w, loc[w])
    /\ UNCHANGED <<harness, faults, amounts, ctx>>

\* SetArgs fails with an error other than redis.Nil: "failed to acquire
\* lock" is returned; the deferred release is not registered yet.
AcquireErrorL(w) ==
    /\ \/ pc[w] = "acquire"
       \/ pc[w] = "idle" /\ CallsStarted < lockCalls
    /\ faults < MaxFaults
    /\ faults' = faults + 1
    /\ loc' = [loc EXCEPT ![w] = LocalsL(0)]
    /\ WorkerReturn(w, "failed to acquire lock")
    /\ UNCHANGED <<store, amounts, ctx>>

\* The backoff wait has elapsed (case <-time.After(jitter), with ctx not
\* done): rdb.TTL(lockKey).  ttl < 0 when the lock key
\* does not exist (the lock is always set with a TTL): the code goes on to
\* delete the lock key; otherwise the loop goes round.
BackoffL(w) ==
    /\ pc[w] = "backoff"
    /\ ctx = "live"
    /\ IF store[lockKey] = Absent
       THEN /\ pc' = [pc EXCEPT ![w] = "expired"]
            /\ UNCHANGED loc
       ELSE NextAttempt(w)
    /\ UNCHANGED <<store, harness, faults, amounts, ctx>>

\* "Lock has expired, delete it and retry immediately": rdb.Del(lockKey),
\* whatever the key holds by now, then continue.
DelExpiredL(w) ==
    /\ pc[w] = "expired"
    /\ store' = [store EXCEPT ![lockKey] = Absent]
    /\ NextAttempt(w)
    /\ UNCHANGED <<harness, faults, amounts, ctx>>

\* rdb.Get(key), the default state for a missing key, the decode, the limit
\* check, the update of the counters and the serialisation.
ReadL(w) ==
    /\ pc[w] = "read"
    /\ LET val == store[key]
           state == IF val = Absent THEN DefaultState ELSE Unmarshal(val[1])
           check == CheckLimits(state, loc[w].tokens)
       IN  IF check # "ok"
           THEN /\ loc' = [loc EXCEPT ![w].err = check \o " window limit exceeded"]
                /\ pc' = [pc EXCEPT ![w] = "release"]
           ELSE /\ loc' = [loc EXCEPT ![w].serialized =
                          Present(Marshal(UpdateCounters(state, loc[w].tokens)))]
                /\ pc' = [pc EXCEPT ![w] = "write"]
    /\ UNCHANGED <<store, harness, faults, amounts, ctx>>

\* rdb.Get fails: "redis get error".
ReadErrorL(w) ==
    /\ pc[w] = "read"
    /\ faults < MaxFaults
    /\ faults' = faults + 1
    /\ loc' = [loc EXCEPT ![w].err = "redis get error"]
    /\ pc' = [pc EXCEPT ![w] = "release"]
    /\ UNCHANGED <<store, harness, amounts, ctx>>

\* rdb.Set(key, serialized, 24h).
WriteL(w) ==
    /\ pc[w] = "write"
    /\ store' = [store EXCEPT ![key] = loc[w].serialized]
    /\ pc' = [pc EXCEPT ![w] = "release"]
    /\ UNCHANGED <<loc, harness, faults, amounts, ctx>>

\* rdb.Set fails: "redis set error".
WriteErrorL(w) ==
    /\ pc[w] = "write"
    /\ faults < MaxFaults
    /\ faults' = faults + 1
    /\ loc' = [loc EXCEPT ![w].err = "redis set error"]
    /\ pc' = [pc EXCEPT ![w] = "release"]
    /\ UNCHANGED <<store, harness, amounts, ctx>>

\* The deferred function: rdb.Del(lockKey), with no comparison of the key's
\* value; then the call returns to the worker loop.
ReleaseL(w) ==
    /\ pc[w] = "release"
    /\ store' = [store EXCEPT ![lockKey] = Absent]
    /\ loc' = [loc EXCEPT ![w] = LocalsL(0)]
    /\ WorkerReturn(w, loc[w].err)
    /\ UNCHANGED <<faults, amounts, ctx>>

NextL ==
    \/ \E w \in LockRoutines : CallL(w)
    \/ \E w \in LockRoutines : AcquireL(w)
    \/ \E w \in LockRoutines : AcquireErrorL(w)
    \/ \E w \in LockRoutines : BackoffL(w)
    \/ \E w \in LockRoutines : DelExpiredL(w)
    \/ \E w \in LockRoutines : ReadL(w)
    \/ \E w \in LockRoutines : ReadErrorL(w)
    \/ \E w \in LockRoutines : WriteL(w)
    \/ \E w \in LockRoutines : WriteErrorL(w)
    \/ \E w \in LockRoutines : ReleaseL(w)

SpecL == InitL /\ [][NextL]_vars

\* C4: under the SetNX mutex strategy the persisted count of every sliding
\* and fixed window is within its limit in every reachable state.
C4_LockCountsWithinLimits == CountsWithinLimits(key)

\* C4 witness: a window stands at its limit, a call whose limit check failed
\* is about to release, and another call is inside the function.
C4_Witness ==
    /\ store[key] # Absent
    /\ \E d \in DocWindows(store[key][1]) : d.count = d.limit
    /\ \E w1, w2 \in LockRoutines :
          /\ w1 # w2
          /\ pc[w1] = "release"
          /\ IsLimitErr(loc[w1].err)
          /\ pc[w2] \in {"acquire", "backoff", "read", "write", "release"}

\* C7: once every call has returned, each window's persisted count equals the
\* sum of the tokens of the calls that returned nil.
C7_LockLosesNoUpdate ==
    (AllDoneL /\ store[key] # Absent)
    => \A d \in DocWindows(store[key][1]) : d.count = accepted

\* C8: a caller is between its read of the state and its release only while
\* the lock key holds its own value, and no two callers are both between
\* their read of the state and their write of it.
C8_LockMutualExclusion ==
    /\ \A w \in LockRoutines :
          pc[w] \in {"read", "write"} => store[lockKey] = Present(w)
    /\ \A w1, w2 \in LockRoutines :
          (pc[w1] = "write" /\ pc[w2] = "write") => w1 = w2

\* C9: a call whose last lock attempt finds the lock key held (rather than
\* missing or set by this call) returns the lock-timeout failure to its worker
\* at that step: it does not go on to the read of the rate-limit state.
C9_LockTimeoutDoesNotTouchState ==
    [][\A w \in LockRoutines :
          (/\ pc[w] = "backoff"
           /\ loc[w].attempt = maxRetries - 1
           /\ store[lockKey] # Absent
           /\ pc'[w] # "backoff")
             => (pc'[w] = "idle" /\ failed' = failed + 1)]_vars

\* ------------------------------------ pipelined GET then INCRBY (main7)
window1Key == "ratelimit:window1:test_user:test_endpoint"
window2Key == "ratelimit:window2:test_user:test_endpoint"
window3Key == "ratelimit:window3:test_user:test_endpoint"
WindowKeys == {window1Key, window2Key, window3Key}

\* The locals of a call: the amount and the three counts it read.
Locals2(t) == [tokens |-> t, counts |-> [k \in WindowKeys |-> 0]]

\* main7 sets the three window keys to 0 before it starts the workers.
Init2 ==
    /\ HarnessInit(Workers)
    /\ store = [k \in WindowKeys |-> Present(0)]
    /\ loc = [w \in Workers |-> Locals2(0)]

\* The worker calls updateLimiterState2(ctx, rdb, userID, endpointID, tokens).
Call2(w) ==
    /\ pc[w] = "idle"
    /\ j[w] < updatesPerRoutine7
    /\ \E t \in amounts : loc' = [loc EXCEPT ![w] = Locals2(t)]
    /\ pc' = [pc EXCEPT ![w] = "get"]
    /\ UNCHANGED <<store, harness, faults, amounts, ctx>>

\* What the first pipeline leaves in window1Count..window3Count: Exec returns
\* redis.Nil when one of the keys does not exist, and then no result is
\* looked at and every count stays 0.
ReadCounts2(st) ==
    IF \E k \in WindowKeys : st[k] = Absent
    THEN [k \in WindowKeys |-> 0]
    ELSE [k \in WindowKeys |-> st[k][1]]

\* Mutant: the limit check admits one token more.
Exceeds2_OffByOne(counts, tokens) ==
    \E k \in WindowKeys : counts[k] + tokens > limit2 + 1

\* The limit check of updateLimiterState2 on the counts read.
Exceeds2(counts, tokens) == \E k \in WindowKeys : counts[k] + tokens > limit2

\* The first pipeline (GET of the three keys, sent in one round trip and taken
\* here as one step of the server) and the limit check on what was read.
Get2(w) ==
    /\ pc[w] = "get"
    /\ LET counts == ReadCounts2(store)
       IN  IF Exceeds2(counts, loc[w].tokens)
           THEN /\ loc' = [loc EXCEPT ![w] = Locals2(0)]
                /\ WorkerReturn(w, "rate limit exceeded")
           ELSE /\ loc' = [loc EXCEPT ![w].counts = counts]
                /\ pc' = [pc EXCEPT ![w] = "incr"]
                /\ UNCHANGED harness
    /\ UNCHANGED <<store, faults, amounts, ctx>>

\* The first pipeline fails: no Int64() result is usable, the counts stay 0
\* and the function goes on to the limit check and the increment.
GetError2(w) ==
    /\ pc[w] = "get"
    /\ faults < MaxFaults
    /\ faults' = faults + 1
    /\ IF Exceeds2([k \in WindowKeys |-> 0], loc[w].tokens)
       THEN /\ loc' = [loc EXCEPT ![w] = Locals2(0)]
            /\ WorkerReturn(w, "rate limit exceeded")
       ELSE /\ pc' = [pc EXCEPT ![w] = "incr"]
            /\ UNCHANGED <<loc, harness>>
    /\ UNCHANGED <<store, amounts, ctx>>

\* The second pipeline: INCRBY of the three keys (a missing key counts from
\* 0) and EXPIRE; the call returns nil.
Incr2(w) ==
    /\ pc[w] = "incr"
    /\ store' = [k \in WindowKeys |-> Present(ToNumber(store[k]) + loc[w].tokens)]
    /\ loc' = [loc EXCEPT ![w] = Locals2(0)]
    /\ WorkerReturn(w, "nil")
    /\ UNCHANGED <<faults, amounts, ctx>>

\* The second pipeline fails: "failed to increment windows".
IncrError2(w) ==
    /\ pc[w] = "incr"
    /\ faults < MaxFaults
    /\ faults' = faults + 1
    /\ loc' = [loc EXCEPT ![w] = Locals2(0)]
    /\ WorkerReturn(w, "failed to increment windows")
    /\ UNCHANGED <<store, amounts, ctx>>

Next2 ==
    \/ \E w \in Workers : Call2(w)
    \/ \E w \in Workers : Get2(w)
    \/ \E w \in Workers : GetError2(w)
    \/ \E w \in Workers : Incr2(w)
    \/ \E w \in Workers : IncrError2(w)

Spec2 == Init2 /\ [][Next2]_vars

\* C5: under the read-then-atomic-increment variant, with calls of amount 1
\* that all reach the server, no window counter ever exceeds the limit.
C5_IncrByNeverOvershoots ==
    (amounts = {1} /\ faults = 0)
        => \A k \in WindowKeys : ToNumber(store[k]) <= limit2

\* --------------------------------------- Olric DMap Get then Incr (main5)
sliding5 == "ratelimit:sliding:test_user:test_endpoint"
fixed5 == "ratelimit:fixed:test_user:test_endpoint"
Workers5 == 1..numRoutines5

\* maxRetries := 5 of updateLimiterState5.
maxRetries5 == 5

\* The locals of updateLimiterState5: the amount, the loop index i and the
\* two counts read; incS is history, the total by which this call has raised
\* the sliding counter so far (it raises the fixed counter in its last step
\* only).
Locals5(tokens) ==
    [tokens |-> tokens, i |-> 0, slidingCount |-> 0, fixedCount |-> 0,
     incS |-> 0]

\* main5 puts 0 in both counters before it launches its goroutines, which
\* all pass the amount 1.
Init5 ==
    /\ HarnessInit(Workers5)
    /\ amounts = {1}
    /\ store = [k \in {sliding5, fixed5} |-> Present(0)]
    /\ loc = [w \in Workers5 |-> Locals5(0)]

\* The worker calls updateLimiterState5(ctx, dm, userID, endpointID, tokens).
Call5(w) ==
    /\ pc[w] = "idle"
    /\ CallsStartedBy(Workers5) < calls5
    /\ \E t \in amounts : loc' = [loc EXCEPT ![w] = Locals5(t)]
    /\ pc' = [pc EXCEPT ![w] = "getSliding"]
    /\ UNCHANGED <<store, j, latencyChan, accepted, rejected, failed, faults, amounts, ctx>>

\* The call returns err to the worker loop, which logs it or sends a latency;
\* the locals of the call go out of scope.
Return5(w, err) ==
    /\ loc' = [loc EXCEPT ![w] = Locals5(0)]
    /\ WorkerReturn(w, err)

\* dm.Get(ctx, slidingKey) succeeds.
GetSliding5(w) ==
    /\ pc[w] = "getSliding"
    /\ loc' = [loc EXCEPT ![w].slidingCount = ToNumber(store[sliding5])]
    /\ pc' = [pc EXCEPT ![w] = "getFixed"]
    /\ UNCHANGED <<store, j, latencyChan, accepted, rejected, failed, faults, amounts, ctx>>

\* The limit check of updateLimiterState5 (the literal 500 in the source).
Exceeds5(slidingCount, fixedCount, tokens) ==
    slidingCount + tokens > limit5 \/ fixedCount + tokens > limit5

\* dm.Get(ctx, fixedKey) succeeds, and the check follows.
GetFixed5(w) ==
    /\ pc[w] = "getFixed"
    /\ LET l == [loc[w] EXCEPT !.fixedCount = ToNumber(store[fixed5])]
       IN  IF Exceeds5(l.slidingCount, l.fixedCount, l.tokens)
           THEN Return5(w, "rate limit exceeded")
           ELSE /\ loc' = [loc EXCEPT ![w] = l]
                /\ pc' = [pc EXCEPT ![w] = "incrSliding"]
                /\ UNCHANGED <<j, latencyChan, accepted, rejected, failed>>
    /\ UNCHANGED <<store, faults, amounts, ctx>>

\* dm.Incr(ctx, slidingKey, int(tokens)) succeeds.
IncrSliding5(w) ==
    /\ pc[w] = "incrSliding"
    /\ store[sliding5] # Malformed
    /\ store' = [store EXCEPT ![sliding5] = Present(ToNumber(@) + loc[w].tokens)]
    /\ loc' = [loc EXCEPT ![w].incS = @ + loc[w].tokens]
    /\ pc' = [pc EXCEPT ![w] = "incrFixed"]
    /\ UNCHANGED <<j, latencyChan, accepted, rejected, failed, faults, amounts, ctx>>

\* dm.Incr(ctx, fixedKey, int(tokens)) succeeds and the call returns nil.
IncrFixed5(w) ==
    /\ pc[w] = "incrFixed"
    /\ store[fixed5] # Malformed
    /\ store' = [store EXCEPT ![fixed5] = Present(ToNumber(@) + loc[w].tokens)]
    /\ Return5(w, "nil")
    /\ UNCHANGED <<faults, amounts, ctx>>

InCall5(w) == pc[w] \in {"getSliding", "getFixed", "incrSliding", "incrFixed"}

\* Mutant: continue always starts another iteration.
MayRetry5_Always(i) == TRUE

\* for i := 0; i < maxRetries; i++: after the i++ of a continue, the loop
\* condition admits another iteration.
MayRetry5(i) == i + 1 < maxRetries5

\* A Get or an Incr fails with olric.ErrWriteQuorum: sleep 10 ms and continue
\* with the next iteration, or leave the loop after maxRetries iterations.
ErrWriteQuorum5(w) ==
    /\ InCall5(w)
    /\ faults < MaxFaults5
    /\ faults' = faults + 1
    /\ IF MayRetry5(loc[w].i)
       THEN /\ loc' = [loc EXCEPT ![w].i = @ + 1]
            /\ pc' = [pc EXCEPT ![w] = "getSliding"]
            /\ UNCHANGED <<j, latencyChan, accepted, rejected, failed>>
       ELSE Return5(w, "failed to update after retries")
    /\ UNCHANGED <<store, amounts, ctx>>

\* A Get or an Incr fails with another error, which the call returns.
OtherError5(w) ==
    /\ InCall5(w)
    /\ faults < MaxFaults5
    /\ faults' = faults + 1
    /\ Return5(w,
               CASE pc[w] = "getSliding" -> "failed to get sliding window count"
                 [] pc[w] = "getFixed" -> "failed to get fixed window count"
                 [] pc[w] = "incrSliding" -> "failed to increment sliding window"
                 [] OTHER -> "failed to increment fixed window")
    /\ UNCHANGED <<store, amounts, ctx>>

Next5 ==
    \E w \in Workers5 :
        \/ Call5(w)
        \/ GetSliding5(w)
        \/ GetFixed5(w)
        \/ IncrSliding5(w)
        \/ IncrFixed5(w)
        \/ ErrWriteQuorum5(w)
        \/ OtherError5(w)

Spec5 == Init5 /\ [][Next5]_vars

\* C15: updateLimiterState5 never leaves partial increments: whenever a call
\* has returned (success, limit exceeded or error, ErrWriteQuorum retries
\* included), it has raised the sliding and the fixed counter by the same
\* total, which is tokens on success and 0 otherwise.
C15_NoPartialIncrement ==
    [][\A w \in Workers5 :
          (j'[w] = j[w] + 1)
              => LET incF == IF store'[fixed5] # store[fixed5]
                             THEN loc[w].tokens ELSE 0
                 IN  /\ loc[w].incS = incF
                     /\ loc[w].incS = IF accepted' > accepted
                                      THEN loc[w].tokens ELSE 0]_vars

\* ------------------------------------- Distributed-Mutex with Olric (main6)
count6 == "count"
\* The lock dm.LockWithTimeout holds on the key.
lock6 == "count#lock"
Routines6 == 1..numRoutines6

\* The locals of incrementWithLock: the amount, the value to put, the error
\* the call is about to return.
Locals6(amount) == [tokens |-> amount, newCount |-> 0, err |-> "nil"]

\* main6 puts int64(0) under the key before it launches its goroutines.
Init6 ==
    /\ HarnessInit(Routines6)
    /\ store = [k \in {count6, lock6} |-> IF k = count6 THEN Present(0) ELSE Absent]
    /\ loc = [w \in Routines6 |-> Locals6(0)]

\* main6's loop body: an error is logged and the loop goes on; there is no
\* latency channel.
WorkerReturn6(w, err) ==
    /\ pc' = [pc EXCEPT ![w] = "idle"]
    /\ j' = [j EXCEPT ![w] = @ + 1]
    /\ accepted' = IF err = "nil" THEN accepted + loc[w].tokens ELSE accepted
    /\ rejected' = IF err = "would exceed limit" THEN rejected + 1 ELSE rejected
    /\ failed' = IF err \notin {"nil", "would exceed limit"} THEN failed + 1 ELSE failed
    /\ loc' = [loc EXCEPT ![w] = Locals6(0)]
    /\ UNCHANGED latencyChan

\* The goroutine calls incrementWithLock(ctx, dm, key, amount, routineID).
Call6(w) ==
    /\ pc[w] = "idle"
    /\ j[w] < updatesPerRoutine6
    /\ \E t \in amounts : loc' = [loc EXCEPT ![w] = Locals6(t)]
    /\ pc' = [pc EXCEPT ![w] = "lock"]
    /\ UNCHANGED <<store, harness, faults, amounts, ctx>>

\* dm.LockWithTimeout(ctx, key, 1s, lockTimeout) returns a token: no other
\* caller holds the lock.
Lock6(w) ==
    /\ pc[w] = "lock"
    /\ store[lock6] = Absent
    /\ store' = [store EXCEPT ![lock6] = Present(w)]
    /\ pc' = [pc EXCEPT ![w] = "get"]
    /\ UNCHANGED <<loc, harness, faults, amounts, ctx>>

\* dm.LockWithTimeout gives up after lockTimeout while another caller holds
\* the lock: "failed to acquire lock"; no release is deferred yet.
LockTimeout6(w) ==
    /\ pc[w] = "lock"
    /\ store[lock6] # Absent
    /\ WorkerReturn6(w, "failed to acquire lock")
    /\ UNCHANGED <<store, faults, amounts, ctx>>

\* if currentCount+amount > limit.
Exceeds6(currentCount, amount) == currentCount + amount > limit6

\* dm.Get(ctx, key), currentCount (0 when the key is not found), the limit
\* check and the value to put.
Get6(w) ==
    /\ pc[w] = "get"
    /\ LET currentCount == ToNumber(store[count6])
       IN  IF Exceeds6(currentCount, loc[w].tokens)
           THEN /\ loc' = [loc EXCEPT ![w].err = "would exceed limit"]
                /\ pc' = [pc EXCEPT ![w] = "unlock"]
           ELSE /\ loc' = [loc EXCEPT ![w].newCount = currentCount + loc[w].tokens]
                /\ pc' = [pc EXCEPT ![w] = "put"]
    /\ UNCHANGED <<store, harness, faults, amounts, ctx>>

\* dm.Get fails ("failed to get value") or val.Int64() fails ("failed to
\* parse value").
GetError6(w) ==
    /\ pc[w] = "get"
    /\ faults < MaxFaults
    /\ faults' = faults + 1
    /\ \E e \in {"failed to get value", "failed to parse value"} :
          loc' = [loc EXCEPT ![w].err = e]
    /\ pc' = [pc EXCEPT ![w] = "unlock"]
    /\ UNCHANGED <<store, harness, amounts, ctx>>

\* dm.Put(ctx, key, currentCount+amount).
Put6(w) ==
    /\ pc[w] = "put"
    /\ store' = [store EXCEPT ![count6] = Present(loc[w].newCount)]
    /\ pc' = [pc EXCEPT ![w] = "unlock"]
    /\ UNCHANGED <<loc, harness, faults, amounts, ctx>>

\* dm.Put fails: "failed to put new value".
PutError6(w) ==
    /\ pc[w] = "put"
    /\ faults < MaxFaults
    /\ faults' = faults + 1
    /\ loc' = [loc EXCEPT ![w].err = "failed to put new value"]
    /\ pc' = [pc EXCEPT ![w] = "unlock"]
    /\ UNCHANGED <<store, harness, amounts, ctx>>

\* Mutant: the deferred function does not unlock.
Unlocked6_Leak(st, w) == st

\* token.Unlock(ctx): the lock is released if this token still holds it.
Unlocked6(st, w) ==
    IF st[lock6] = Present(w) THEN [st EXCEPT ![lock6] = Absent] ELSE st

\* The deferred function runs token.Unlock, then the call returns.
Unlock6(w) ==
    /\ pc[w] = "unlock"
    /\ store' = Unlocked6(store, w)
    /\ WorkerReturn6(w, loc[w].err)
    /\ UNCHANGED <<faults, amounts, ctx>>

Next6 ==
    \/ \E w \in Routines6 : Call6(w)
    \/ \E w \in Routines6 : Lock6(w)
    \/ \E w \in Routines6 : LockTimeout6(w)
    \/ \E w \in Routines6 : Get6(w)
    \/ \E w \in Routines6 : GetError6(w)
    \/ \E w \in Routines6 : Put6(w)
    \/ \E w \in Routines6 : PutError6(w)
    \/ \E w \in Routines6 : Unlock6(w)

Spec6 == Init6 /\ [][Next6]_vars

\* ------------------------------------------- properties of several programs
\* Which program a state belongs to: each program keeps its own keys.
Runs7 == DOMAIN store = {slidingKey, fixedKey}
Runs3 == DOMAIN store = {key}
Runs8 == DOMAIN store = {key8, lock8}
RunsL == DOMAIN store = {key, lockKey}
Runs2 == DOMAIN store = WindowKeys

\* Only worker w has made or started calls so far: a single caller.
SingleCaller(w) == \A v \in DOMAIN pc \ {w} : pc[v] = "idle" /\ j[v] = 0

Min(a, b) == IF a <= b THEN a ELSE b

\* The smallest limit of the windows of the stored state (that of the default
\* state while the key is missing).
MinLimit(k) ==
    IF store[k] = Absent THEN MaxLimit
    ELSE CHOOSE l \in {d.limit : d \in DocWindows(store[k][1])} :
            \A d \in DocWindows(store[k][1]) : l <= d.limit

\* main8, main4 or main: any one of the three programs.
Init78L == Init7 \/ Init8 \/ InitL
Next78L ==
    \/ Runs7 /\ Next7
    \/ Runs8 /\ Next8
    \/ RunsL /\ NextL
Spec78L == Init78L /\ [][Next78L]_vars

\* The sequential scenario of updateLimiterState7: after n calls of amount 1
\* by a single caller, Min(n, limit3) of them succeeded, the others were
\* rejected, and both counters stand at Min(n, limit3).
Sequential7 ==
    \A w \in Workers :
        (SingleCaller(w) /\ amounts = {1} /\ faults = 0 /\ pc[w] = "idle")
        => LET a == Min(j[w], limit3)
           IN  /\ accepted = a /\ latencyChan = a
               /\ rejected = j[w] - a /\ failed = 0
               /\ store[slidingKey] = Present(a)
               /\ store[fixedKey] = Present(a)

\* The sequential scenario of updateLimiterState8 under main4, which stops a
\* goroutine at its first rejection: every call before Count reaches Limit
\* succeeds and raises Count, the call made at Count = Limit is rejected.
Sequential8 ==
    \A w \in Goroutines :
        (SingleCaller(w) /\ faults = 0 /\ store[key8] # Absent
            /\ pc[w] \in {"idle", "stopped"})
        => /\ accepted = j[w] /\ Count8 = j[w] /\ failed = 0
           /\ j[w] <= store[key8][1].limit
           /\ pc[w] = "idle" => rejected = 0
           /\ pc[w] = "stopped" => rejected = 1 /\ j[w] = store[key8][1].limit

\* The sequential scenario of updateLimiterStateWithLock: as Sequential7, with
\* the smallest window limit of the stored state.
SequentialL ==
    \A w \in LockRoutines :
        (SingleCaller(w) /\ amounts = {1} /\ faults = 0 /\ pc[w] = "idle")
        => LET a == Min(j[w], MinLimit(key))
           IN  /\ accepted = a /\ latencyChan = a
               /\ rejected = j[w] - a /\ failed = 0
               /\ j[w] > 0 =>
                    /\ store[key] # Absent
                    /\ \A d \in DocWindows(store[key][1]) : d.count = a

\* C11: for a single caller issuing calls of amount 1 one after another
\* against count 0 and limit L, call k succeeds for every k <= L, is rejected
\* for every k > L, and the count stays at L, under updateLimiterState7,
\* updateLimiterState8 and updateLimiterStateWithLock.
C11_SequentialScenario ==
    /\ Runs7 => Sequential7
    /\ Runs8 => Sequential8
    /\ RunsL => SequentialL

\* C11 witness: a single caller of updateLimiterStateWithLock has had its
\* first calls accepted up to the limit and its next call rejected.
C11_Witness ==
    /\ RunsL /\ amounts = {1} /\ faults = 0
    /\ \E w \in LockRoutines :
          /\ SingleCaller(w) /\ pc[w] = "idle"
          /\ accepted = MinLimit(key) /\ rejected > 0

\* main8, main4, main or main7: any one of the four programs.
Init78L2 == Init78L \/ Init2
Next78L2 ==
    \/ Next78L
    \/ Runs2 /\ Next2
Spec78L2 == Init78L2 /\ [][Next78L2]_vars

\* The keys that hold the rate-limit state (the lock keys hold none of it).
RateKeys == DOMAIN store \ {lockKey, lock8}

\* C13: a call that returns the limit-exceeded outcome leaves every window
\* count and limit of the rate-limit state as it was: the step that returns
\* the rejection changes no rate-limit key, and (for the calls of several
\* steps) the rejected call of updateLimiterStateWithLock has computed no
\* state to write; under updateLimiterState7, updateLimiterStateWithLock,
\* updateLimiterState8 and updateLimiterState2.
C13_RejectionDoesNotMutate ==
    /\ [](RunsL =>
            \A w \in LockRoutines :
                (pc[w] = "release" /\ IsLimitErr(loc[w].err))
                    => loc[w].serialized = Absent)
    /\ [][rejected' = rejected + 1
            => \A k \in RateKeys : store'[k] = store[k]]_vars

\* C13 witness: a call of updateLimiterState8 has been rejected with Count
\* at Limit, and its goroutine has stopped, while another call is in progress.
C13_Witness ==
    /\ Runs8 /\ rejected > 0
    /\ store[key8] # Absent
    /\ Count8 = store[key8][1].limit
    /\ \E w, v \in Goroutines :
          pc[w] = "stopped" /\ pc[v] \in {"begin", "lock", "get", "commit"}

\* main3, main or main8: any one of the three programs.
Init3L7 == Init3 \/ InitL \/ Init7
Next3L7 ==
    \/ Runs3 /\ Next3
    \/ RunsL /\ NextL
    \/ Runs7 /\ Next7
Spec3L7 == Init3L7 /\ [][Next3L7]_vars

\* The document a call reads: the stored one, or the default state of the
\* program for a missing key.
ReadDoc ==
    IF store[key] # Absent THEN store[key][1]
    ELSE IF RunsL THEN Marshal(DefaultState)
    ELSE Marshal(LimiterState(<<>>, <<>>))

\* count + amount <= limit holds for every sliding and every fixed window.
AllWindowsPass(doc, amount) ==
    \A d \in DocWindows(doc) : d.count + amount <= d.limit

\* doc with the count of every window raised by amount and nothing else changed.
RaisedDoc(doc, amount) ==
    [sliding_windows |->
        [i \in DOMAIN doc.sliding_windows |->
            [doc.sliding_windows[i] EXCEPT !.count = @ + amount]],
     fixed_window |->
        [i \in DOMAIN doc.fixed_window |->
            [doc.fixed_window[i] EXCEPT !.count = @ + amount]]]

\* The check-and-update step of UpdateLimiterState3 / updateLimiterStateWithLock
\* by worker w: the call goes on to its write, with every count raised by the
\* amount, iff every window passes; otherwise nothing is prepared or changed.
AllWindowsStep(w) ==
    (pc[w] \in {"read", "get"} /\ pc'[w] # pc[w] /\ faults' = faults)
    => IF AllWindowsPass(ReadDoc, loc[w].tokens)
       THEN /\ pc'[w] \in {"write", "exec"}
            /\ loc'[w].serialized = Present(RaisedDoc(ReadDoc, loc[w].tokens))
       ELSE /\ pc'[w] \notin {"write", "exec"}
            /\ loc'[w].serialized = Absent
            /\ store' = store

\* The write of worker w stores exactly the state its check-and-update prepared.
WriteStep(w) ==
    (pc[w] \in {"write", "exec"} /\ pc'[w] # pc[w] /\ store'[key] # store[key])
    => store'[key] = loc[w].serialized

\* One run of the script by worker w: both counters are raised by the amount
\* iff both pass, otherwise neither changes and the call is rejected.
ScriptStep(w) ==
    (pc[w] = "script" /\ pc'[w] # pc[w] /\ faults' = faults)
    => IF \A k \in {slidingKey, fixedKey} :
             ToNumber(store[k]) + loc[w].tokens <= limit3
       THEN /\ \A k \in {slidingKey, fixedKey} :
                  store'[k] = Present(ToNumber(store[k]) + loc[w].tokens)
            /\ accepted' = accepted + loc[w].tokens
       ELSE /\ store' = store
            /\ rejected' = rejected + 1

\* C14: the admission check is all-windows: the increment is applied iff
\* count + amount <= limit holds for every sliding and every fixed window; a
\* single failing window leaves every count unchanged, and when all pass every
\* count is raised by exactly the amount (UpdateLimiterState3,
\* updateLimiterStateWithLock, checkAndIncrementScript).
C14_AllWindowsCheck ==
    [][/\ (Runs3 \/ RunsL) =>
            \A w \in DOMAIN pc : AllWindowsStep(w) /\ WriteStep(w)
       /\ Runs7 => \A w \in Workers : ScriptStep(w)]_vars

\* C14 witness: a call of UpdateLimiterState3 whose amount passes one window
\* and fails the other has just been turned away by the check.
C14_Witness ==
    /\ Runs3
    /\ \E w \in Workers3 :
          /\ loc[w].checkFailed
          /\ \E d \in DocWindows(ReadDoc) : d.count + loc[w].tokens <= d.limit
          /\ \E d \in DocWindows(ReadDoc) : d.count + loc[w].tokens > d.limit

\* main or main6: either of the two mutex programs.
Runs6 == DOMAIN store = {count6, lock6}
InitL6 == InitL \/ Init6
NextL6 ==
    \/ RunsL /\ NextL
    \/ Runs6 /\ Next6
SpecL6 == InitL6 /\ [][NextL6]_vars

\* The lock key of the program that runs, and the positions of a call between
\* the acquisition of its lock and its deferred release.
LockOf == IF RunsL THEN lockKey ELSE lock6
AfterAcquire(w) == pc[w] \in {"read", "write", "release", "get", "put", "unlock"}

\* C18: Distributed-Mutex releases on every exit path: every
\* updateLimiterStateWithLock call and every incrementWithLock call that
\* acquired its lock releases it (Del of the lock key / token.Unlock) before
\* returning, on the success path, the limit-exceeded path and every read,
\* decode and write error path.
C18_MutexReleasedOnEveryExit ==
    /\ [](\A w \in DOMAIN pc : store[LockOf] = Present(w) => AfterAcquire(w))
    /\ [][\A w \in DOMAIN pc :
            (AfterAcquire(w) /\ j'[w] = j[w] + 1)
                => /\ pc[w] \in {"release", "unlock"}
                   /\ store'[LockOf] # Present(w)]_vars

\* C18 witness: calls of incrementWithLock have returned on the success, the
\* limit-exceeded and an error path, the lock is free, and another call is
\* about to take it.
C18_Witness ==
    /\ Runs6
    /\ accepted > 0 /\ rejected > 0 /\ failed > 0
    /\ store[lock6] = Absent
    /\ \E w \in Routines6 : pc[w] = "lock"

\* ------------------------------------------------------------ cancellation
\* The caller cancels the context it passes to the calls (or its deadline
\* expires).
Cancel ==
    /\ ctx = "live"
    /\ ctx' = "cancelled"
    /\ UNCHANGED <<store, pc, j, loc, latencyChan, accepted, rejected, failed,
                   faults, amounts>>

\* txn.LockKeysWithWaitTime(ctx, ...), txn.Get(ctx, key) or txn.Commit(ctx)
\* fails because ctx is cancelled: Rollback, and the error is returned.
\* client.Begin() takes no context.
CtxError8(w) ==
    /\ ctx = "cancelled"
    /\ InTxn8(w)
    /\ store' = ReleaseLock8(store, w)
    /\ WorkerReturn8(w, FALSE, "context canceled")
    /\ UNCHANGED <<faults, amounts, ctx>>

\* main3 or main4 with a caller that may cancel its context.
\* UpdateLimiterState3 takes no context: it runs every command under its own
\* context.Background().
Init38C == Init3 \/ Init8
Next38C ==
    \/ Runs3 /\ Next3
    \/ Runs8 /\ Next8
    \/ Runs8 /\ \E w \in Goroutines : CtxError8(w)
    \/ Cancel
Spec38C == Init38C /\ [][Next38C]_vars

\* C19: a call made with an already-expired or already-cancelled context
\* returns a cancelled failure without issuing any operation to the store (no
\* lock attempt, no read, no transaction begin, no write): the step in which
\* a worker makes a call under a cancelled context is the return of a failure
\* and leaves the store alone (updateLimiterState8, UpdateLimiterState3).
C19_CancelledCallIssuesNothing ==
    [][\A w \in DOMAIN pc :
          (ctx = "cancelled" /\ pc[w] = "idle" /\ (pc'[w] # "idle" \/ j'[w] # j[w]))
              => /\ pc'[w] \in {"idle", "stopped"}
                 /\ failed' = failed + 1
                 /\ store' = store]_vars

\* C20: every retry wait honours cancellation: once the caller's context is
\* cancelled, a call of UpdateLimiterState3 that is between two passes of its
\* conflict retry loop makes no further attempt.
C20_RetryWaitHonoursCancellation ==
    [][\A w \in DOMAIN pc :
          (Runs3 /\ ctx = "cancelled" /\ pc[w] = "watch") => pc'[w] # "get"]_vars

\* ------------------------------------------------------- the worker loops
\* C21: harness workers continue after a failure: each of the N workers
\* issues all M of its calls, so exactly N*M calls are attempted even when
\* some calls return a failure or the limit-reached outcome.  A worker of
\* main4 that has left its loop (break) has issued j + 1 calls.
C21_WorkersIssueAllCalls ==
    \A w \in DOMAIN pc :
        (Runs8 /\ pc[w] = "stopped") => j[w] + 1 = updatesPerGoroutine

\* C22: the latency sample contains successes only: a latency value is sent
\* to latencyChan for a call iff that call returned success, so no failed
\* call contributes a sample (main3, main, main8).
C22_LatencySampleSuccessesOnly ==
    [][/\ latencyChan' \in {latencyChan, latencyChan + 1}
       /\ (latencyChan' = latencyChan + 1) <=> (accepted' > accepted)]_vars

\* ------------------------------------------ the latency statistics (main)
\* After wg.Wait() and close(latencyChan), main ranges over the channel and
\* computes the statistics.  In this specification latencyChan is the sequence
\* of latencies still in the channel, and loc holds the locals of main.
Reporter == "main"

\* Latencies are whole numbers of a time unit in which time.Hour is Hour.
Durations == 0..MaxLatency

RECURSIVE SeqsUpTo(_)
SeqsUpTo(n) ==
    IF n = 0 THEN {<<>>}
    ELSE LET shorter == SeqsUpTo(n - 1)
         IN  shorter \cup {Append(s, d) : s \in {t \in shorter : Len(t) = n - 1},
                                          d \in Durations}

\* var latencies []time.Duration; var totalLatency, maxLatency time.Duration;
\* var minLatency = time.Hour; var count int.
LocalsStats ==
    [latencies |-> <<>>, totalLatency |-> 0, maxLatency |-> 0,
     minLatency |-> Hour, count |-> 0, p95Latency |-> 0, avgLatency |-> 0]

InitStats ==
    /\ latencyChan \in SeqsUpTo(MaxSamples)
    /\ store = <<>>
    /\ pc = [w \in {Reporter} |-> "range"]
    /\ j = [w \in {Reporter} |-> 0]
    /\ loc = [w \in {Reporter} |-> LocalsStats]
    /\ accepted = Len(latencyChan)
    /\ rejected = 0
    /\ failed = 0
    /\ faults = 0
    /\ amounts = {1}
    /\ ctx = "live"

\* One iteration of `for latency := range latencyChan`.
Receive ==
    /\ pc[Reporter] = "range"
    /\ latencyChan # <<>>
    /\ LET latency == Head(latencyChan)
           l == loc[Reporter]
       IN  loc' = [loc EXCEPT ![Reporter] =
                     [l EXCEPT !.totalLatency = @ + latency,
                               !.count = @ + 1,
                               !.maxLatency = IF latency > @ THEN latency ELSE @,
                               !.minLatency = IF latency < @ THEN latency ELSE @,
                               !.latencies = Append(@, latency)]]
    /\ latencyChan' = Tail(latencyChan)
    /\ UNCHANGED <<store, pc, j, accepted, rejected, failed, faults, amounts, ctx>>

\* sort.Slice(latencies, less) with less(i, j) = latencies[i] < latencies[j]:
\* insertion of each element into the sorted prefix.
Insert(sorted, x) ==
    LET k == Cardinality({i \in DOMAIN sorted : sorted[i] <= x})
    IN  SubSeq(sorted, 1, k) \o <<x>> \o SubSeq(sorted, k + 1, Len(sorted))

RECURSIVE SortSlice(_)
SortSlice(s) ==
    IF s = <<>> THEN <<>> ELSE Insert(SortSlice(SubSeq(s, 1, Len(s) - 1)), s[Len(s)])

\* int(float64(len(latencies)) * 0.95): the product is rounded to the nearest
\* float64 and then truncated.  The float64 nearest 0.95 is below 0.95 by a
\* relative 4.7e-17, less than half a unit in the last place of any product,
\* so a product whose exact value 0.95 * n is an integer rounds to that
\* integer, and the result is floor(95 * n / 100) for every n of interest.
P95Index(n) == (n * 95) \div 100

\* The channel is drained: sort, p95Index, p95Latency (slices are indexed
\* from 0), avgLatency := totalLatency / time.Duration(count).  An index
\* outside the slice and an integer division by zero are run-time panics.
Report ==
    /\ pc[Reporter] = "range"
    /\ latencyChan = <<>>
    /\ LET l == loc[Reporter]
           sorted == SortSlice(l.latencies)
           p95Index == P95Index(Len(sorted))
       IN  IF p95Index + 1 \notin DOMAIN sorted \/ l.count = 0
           THEN /\ loc' = [loc EXCEPT ![Reporter].latencies = sorted]
                /\ pc' = [pc EXCEPT ![Reporter] = "panic"]
           ELSE /\ loc' = [loc EXCEPT ![Reporter] =
                             [l EXCEPT !.latencies = sorted,
                                       !.p95Latency = sorted[p95Index + 1],
                                       !.avgLatency = l.totalLatency \div l.count]]
                /\ pc' = [pc EXCEPT ![Reporter] = "reported"]
    /\ UNCHANGED <<store, j, latencyChan, accepted, rejected, failed, faults,
                   amounts, ctx>>

NextStats == Receive \/ Report

SpecStats == InitStats /\ [][NextStats]_vars

\* The sample in ascending order, its sum, and its extremes, defined without
\* reference to how the program computes them.
IsAscending(s) == \A a, b \in DOMAIN s : a < b => s[a] <= s[b]
RECURSIVE SumSeq(_)
SumSeq(s) == IF s = <<>> THEN 0 ELSE Head(s) + SumSeq(Tail(s))
Values(s) == {s[i] : i \in DOMAIN s}

\* C23: for a latency sample of count >= 1 values, the harness reports as p95
\* the element at index floor(0.95 * count) of the sample sorted in ascending
\* order, as min the smallest value, as max the largest value and as mean the
\* sum divided by count.
C23_ReportedStatistics ==
    pc[Reporter] = "reported" =>
        LET l == loc[Reporter]
            count == l.count
        IN  /\ count >= 1
            /\ IsAscending(l.latencies) /\ Len(l.latencies) = count
            /\ l.p95Latency = l.latencies[((95 * count) \div 100) + 1]
            /\ l.minLatency \in Values(l.latencies)
            /\ \A x \in Values(l.latencies) : l.minLatency <= x /\ x <= l.maxLatency
            /\ l.maxLatency \in Values(l.latencies)
            /\ l.avgLatency = SumSeq(l.latencies) \div count

\* ------------------------------------------------- malformed stored state
\* main5 on counters that may hold a value that is not an integer.
\* updateLimiterState5 reads a count with `slidingCount, _ = slidingVal.Int64()`:
\* the conversion error is dropped and the count is the 0 of a failed
\* conversion.
Init5M ==
    /\ HarnessInit(Workers5)
    /\ amounts = {1}
    /\ store \in [{sliding5, fixed5} -> {Present(0), Malformed}]
    /\ loc = [w \in Workers5 |-> Locals5(0)]

\* dm.Incr on a value that is not an integer fails, and the error is returned.
IncrWrongType5(w) ==
    /\ \/ pc[w] = "incrSliding" /\ store[sliding5] = Malformed
       \/ pc[w] = "incrFixed" /\ store[fixed5] = Malformed
    /\ Return5(w, IF pc[w] = "incrSliding"
                          THEN "failed to increment sliding window"
                          ELSE "failed to increment fixed window")
    /\ UNCHANGED <<store, faults, amounts, ctx>>

Next5M == Next5 \/ \E w \in Workers5 : IncrWrongType5(w)

Spec5M == Init5M /\ [][Next5M]_vars

\* C24: malformed stored state is a fatal failure: when the stored value of
\* a window cannot be decoded, the call returns a failure immediately,
\* performs no write or increment, and is not retried.  With a malformed
\* counter in the store, the step of updateLimiterState5 that has read both
\* counters returns a failure, no call goes on to an increment, and the store
\* does not change.
C24_MalformedStateIsFatal ==
    [][(\E k \in DOMAIN store : store[k] = Malformed)
          => /\ store' = store
             /\ \A w \in DOMAIN pc :
                   (pc[w] = "getFixed" /\ pc'[w] # pc[w])
                       => pc'[w] = "idle" /\ failed' = failed + 1]_vars

\* ------------------------------------------------- the stored state in time
\* No window of document b has a smaller count than the same window of a.
CountsNotBelow(a, b) ==
    /\ \A i \in DOMAIN a.sliding_windows \cap DOMAIN b.sliding_windows :
          b.sliding_windows[i].count >= a.sliding_windows[i].count
    /\ \A i \in DOMAIN a.fixed_window \cap DOMAIN b.fixed_window :
          b.fixed_window[i].count >= a.fixed_window[i].count

\* C25: window counts are monotonic: across every interleaving of concurrent
\* calls of one strategy on one key, the persisted count of a window never
\* decreases from one reachable state to the next
\* (updateLimiterStateWithLock, UpdateLimiterState3, updateLimiterState7).
C25_CountsMonotonic ==
    [][/\ (Runs3 \/ RunsL) =>
            /\ store[key] # Absent => store'[key] # Absent
            /\ (store[key] # Absent /\ store'[key] # Absent)
                  => CountsNotBelow(store[key][1], store'[key][1])
       /\ Runs7 => \A k \in {slidingKey, fixedKey} :
                      ToNumber(store'[k]) >= ToNumber(store[k])]_vars

\* main3, main or main4: any one of the three programs that store a state
\* document.
Init3L8 == Init3 \/ InitL \/ Init8
Next3L8 ==
    \/ Runs3 /\ Next3
    \/ RunsL /\ NextL
    \/ Runs8 /\ Next8
Spec3L8 == Init3L8 /\ [][Next3L8]_vars

\* Documents a and b have the same windows with the same limits and start
\* times.
FrameKept(a, b) ==
    /\ DOMAIN a = DOMAIN b
    /\ \A f \in {"sliding_windows", "fixed_window"} :
          /\ DOMAIN a[f] = DOMAIN b[f]
          /\ \A i \in DOMAIN a[f] :
                /\ DOMAIN a[f][i] = DOMAIN b[f][i]
                /\ a[f][i].limit = b[f][i].limit
                /\ a[f][i].start_time = b[f][i].start_time

lockName6 == count6

\* The name the running program takes its lock on, and the key under which
\* it stores the counter state.
LockName == IF RunsL THEN lockKey ELSE lockName6
CounterKey == IF RunsL THEN key ELSE count6

\* C27: in both Distributed-Mutex implementations the lock is taken on a
\* name lock:<resource_key> that differs from the key under which the counter
\* state is stored (updateLimiterStateWithLock and incrementWithLock): a
\* call that holds its lock holds it on a name other than the counter key.
C27_LockNameDiffersFromKey ==
    \A w \in DOMAIN pc : AfterAcquire(w) => LockName # CounterKey

\* ---------------------------- the backoff of updateLimiterStateWithLock
\* One call of updateLimiterStateWithLock that finds the lock held, followed
\* through its retry loop.  Durations are whole microseconds.
Caller == "call"
Millisecond == 1000
Second == 1000 * Millisecond
baseDelay == 10 * Millisecond
maxDelay == 1 * Second

\* The values rand.Float64() yields, in [0, 1), as numerators over
\* JitterSteps.
Floats == 0..(JitterSteps - 1)

LocalsBackoff == [attempt |-> 0, delay |-> 0, jitter |-> 0]

InitBackoff ==
    /\ store = <<>>
    /\ pc = [w \in {Caller} |-> "acquire"]
    /\ j = [w \in {Caller} |-> 0]
    /\ loc = [w \in {Caller} |-> LocalsBackoff]
    /\ latencyChan = 0
    /\ accepted = 0
    /\ rejected = 0
    /\ failed = 0
    /\ faults = 0
    /\ amounts = {1}
    /\ ctx = "live"

\* Mutant: the delay does not grow with the attempt.
Delay_Fixed(attempt) == baseDelay

\* delay := baseDelay * time.Duration(1<<uint(attempt)); if delay > maxDelay
\* { delay = maxDelay }.
Delay(attempt) ==
    LET delay == baseDelay * (2 ^ attempt)
    IN  IF delay > maxDelay THEN maxDelay ELSE delay

\* jitter := time.Duration(float64(delay) * (0.5 + rand.Float64())), with
\* rand.Float64() = n / JitterSteps; the conversion truncates.
Jitter(delay, n) == (delay * (JitterSteps + 2 * n)) \div (2 * JitterSteps)

\* SetArgs returns redis.Nil on an attempt: the delay and the jitter are
\* computed and the call waits in the select.
LockHeld ==
    /\ pc[Caller] = "acquire"
    /\ loc[Caller].attempt < maxRetries
    /\ \E n \in Floats :
          LET delay == Delay(loc[Caller].attempt)
          IN  loc' = [loc EXCEPT ![Caller].delay = delay,
                                 ![Caller].jitter = Jitter(delay, n)]
    /\ pc' = [pc EXCEPT ![Caller] = "select"]
    /\ UNCHANGED <<store, harness, faults, amounts, ctx>>

\* time.After(jitter) fires; the loop goes round (attempt++).
TimeAfter ==
    /\ pc[Caller] = "select"
    /\ loc' = [loc EXCEPT ![Caller].attempt = @ + 1]
    /\ pc' = [pc EXCEPT ![Caller] = "acquire"]
    /\ UNCHANGED <<store, harness, faults, amounts, ctx>>

\* SetArgs returns no error (break), or the loop ends after maxRetries
\* attempts: the call leaves the retry loop.
LeaveLoop ==
    /\ pc[Caller] = "acquire"
    /\ pc' = [pc EXCEPT ![Caller] = "locked"]
    /\ UNCHANGED <<store, loc, harness, faults, amounts, ctx>>

NextBackoff == LockHeld \/ TimeAfter \/ LeaveLoop
SpecBackoff == InitBackoff /\ [][NextBackoff]_vars

\* C28: lock-acquisition backoff in updateLimiterStateWithLock: before retry
\* number k (k = 0..4) the call waits d*(0.5 + r) with r in [0,1) and
\* d = min(10ms * 2^k, 1s); d doubles with each attempt, never exceeds 1s,
\* and the wait lies in [0.5*d, 1.5*d).
C28_BackoffDelay ==
    pc[Caller] = "select" =>
        LET k == loc[Caller].attempt
            d == loc[Caller].delay
            wait == loc[Caller].jitter
            doubled == 10000 * (2 ^ k)
        IN  /\ k \in 0..4
            /\ d = IF doubled < 1000000 THEN doubled ELSE 1000000
            /\ d <= 1000000
            /\ k > 0 => d = 2 * (10000 * (2 ^ (k - 1)))
            /\ 2 * wait >= d
            /\ 2 * wait < 3 * d

\* C28 witness: the call waits before its last retry (k = 4), with a delay
\* of 160ms and a wait in the upper half of the range.
C28_Witness ==
    /\ pc[Caller] = "select"
    /\ loc[Caller].attempt = 4
    /\ loc[Caller].delay = 160 * Millisecond
    /\ loc[Caller].jitter > loc[Caller].delay

\* ------------------------------------------- the retries of main5's calls
\* C29: transient quorum failures are retried with a bound in
\* updateLimiterState5: one call makes at most 5 attempts; an ErrWriteQuorum
\* from Get or Incr starts the next attempt (and nothing else does) while
\* fewer than 5 have been made; any other error is returned at once; and the
\* fifth ErrWriteQuorum in a row makes the call return a failure.
C29_BoundedQuorumRetries ==
    [][/\ \A w \in Workers5 :
            /\ loc'[w].i \in 0..4
            /\ loc'[w].i > loc[w].i => faults' = faults + 1
       /\ faults' # faults =>
            \A w \in Workers5 :
                /\ ErrWriteQuorum5(w) =>
                      IF loc[w].i < 4
                      THEN /\ loc'[w].i = loc[w].i + 1
                           /\ pc'[w] = "getSliding"
                           /\ j'[w] = j[w]
                           /\ failed' = failed
                      ELSE /\ pc'[w] = "idle"
                           /\ j'[w] = j[w] + 1
                           /\ failed' = failed + 1
                /\ OtherError5(w) =>
                      /\ pc'[w] = "idle"
                      /\ j'[w] = j[w] + 1
                      /\ failed' = failed + 1]_vars

\* C29 witness: the only call started so far has returned a failure after
\* five errors, four of which were retried.
C29_Witness ==
    /\ faults = 5
    /\ failed = 1
    /\ accepted = 0
    /\ rejected = 0
    /\ CallsStartedBy(Workers5) = 1
    /\ \A w \in Workers5 : pc[w] = "idle"

\* ------------------------------------------------ the release of the lock
\* C30: updateLimiterStateWithLock releases the lock only if it still owns
\* it: the deferred release of a call leaves the lock key as it is when the
\* key holds the lockValue of a different caller.
C30_ReleaseOnlyOwnLock ==
    [][\A w \in LockRoutines :
          (/\ pc[w] = "release"
           /\ pc'[w] = "idle"
           /\ store[lockKey] # Absent
           /\ store[lockKey] # Present(w))
              => store'[lockKey] = store[lockKey]]_vars

\* ------------------------------------------- cancellation during backoff
\* Mutant: the return of the ctx.Done() case runs a release of the lock key.
CtxDoneStore_Release(st) == [st EXCEPT ![lockKey] = Absent]

\* The store after the return of the ctx.Done() case: the return is inside
\* the retry loop, before the deferred release is registered, so no command
\* is issued.
CtxDoneStore(st) == st

\* case <-ctx.Done() of the select in which the call waits between two lock
\* attempts: return "context cancelled while waiting for lock".
CtxDoneL(w) ==
    /\ pc[w] = "backoff"
    /\ ctx = "cancelled"
    /\ store' = CtxDoneStore(store)
    /\ loc' = [loc EXCEPT ![w] = LocalsL(0)]
    /\ WorkerReturn(w, "context cancelled while waiting for lock")
    /\ UNCHANGED <<faults, amounts, ctx>>

\* main with a caller that may cancel the context it passes to the calls.
NextLC ==
    \/ NextL
    \/ \E w \in LockRoutines : CtxDoneL(w)
    \/ Cancel
SpecLC == InitL /\ [][NextLC]_vars

\* C31: when the context is cancelled while updateLimiterStateWithLock is
\* waiting in its backoff between lock attempts, the call returns a failure
\* without making another lock attempt, without reading or writing the
\* rate-limit state and without deleting the lock key: the only step such a
\* call takes is the return of a failure, which leaves the store alone.
C31_CancelDuringBackoff ==
    [][\A w \in LockRoutines :
          (pc[w] = "backoff" /\ ctx = "cancelled" /\ pc'[w] # pc[w])
              => /\ pc'[w] = "idle"
                 /\ j'[w] = j[w] + 1
                 /\ failed' = failed + 1
                 /\ accepted' = accepted
                 /\ store' = store]_vars

\* C31 witness: a call that waited for a lock held by another call has
\* returned a failure after the cancellation, and the lock is still held by
\* the other call.
C31_Witness ==
    /\ ctx = "cancelled"
    /\ failed = 1
    /\ faults = 0
    /\ \E w, v \in LockRoutines :
          /\ w # v
          /\ pc[w] = "idle" /\ j[w] = 1
          /\ pc[v] = "read"
          /\ store[lockKey] = Present(v)

\* ------------------------------------------- the overshoot of main7's calls
\* C32: overshoot of the pipelined INCRBY variant is bounded by concurrency:
\* with N concurrent workers calling updateLimiterState2 with amount 1 and no
\* store errors, every window counter stays <= limit2 + (N - 1) in every
\* reachable state, and a call that reads the counters after one of them
\* has reached limit2 is turned away, never accepted.
C32_OvershootBoundedByConcurrency ==
    /\ []((amounts = {1} /\ faults = 0)
            => \A k \in WindowKeys :
                  ToNumber(store[k]) <= limit2 + (numRoutines - 1))
    /\ [][\A w \in Workers :
            (/\ amounts = {1}
             /\ faults' = 0
             /\ pc[w] = "get"
             /\ pc'[w] # "get"
             /\ \E k \in WindowKeys : ToNumber(store[k]) >= limit2)
                => /\ pc'[w] = "idle"
                   /\ rejected' = rejected + 1
                   /\ store' = store]_vars

\* C32 witness: without store errors and with amount 1, a counter stands at
\* limit2 + (N - 1) and a later call has been turned away.
C32_Witness ==
    /\ amounts = {1}
    /\ faults = 0
    /\ rejected > 0
    /\ \E k \in WindowKeys : ToNumber(store[k]) = limit2 + (numRoutines - 1)

\* ------------------------------------------- progress of the WATCH strategy
\* The calls of the run, whatever their amounts, fit under every window's
\* limit of the stored document doc.
TotalFits(doc) ==
    \A d \in DocWindows(doc) : \A a \in amounts : d.count + calls3 * a <= d.limit

\* Every call of the run has returned nil and the stored document is doc
\* with every count raised by the total amount.
AllAccepted3(doc) ==
    /\ \A w \in Workers3 : pc[w] = "idle"
    /\ CallsStartedBy(Workers3) = calls3
    /\ failed = 0
    /\ accepted >= calls3
    /\ store[key] = Present(RaisedDoc(doc, accepted))

MainRoutine == 0

\* Mutant: the buffer is one value short of the calls made.
Capacity_OneShort == numRoutines * updatesPerRoutine - 1

\* make(chan time.Duration, numRoutines*updatesPerRoutine).
Capacity == numRoutines * updatesPerRoutine

InitH ==
    /\ store = <<>>
    /\ pc = [p \in Workers \cup {MainRoutine} |->
                IF p = MainRoutine THEN "wait" ELSE "loop"]
    /\ j = [w \in Workers |-> 0]
    /\ loc = [p \in Workers \cup {MainRoutine} |->
                 IF p = MainRoutine THEN [closed |-> FALSE] ELSE [sent |-> 0]]
    /\ latencyChan = 0
    /\ accepted = 0
    /\ rejected = 0
    /\ failed = 0
    /\ faults = 0
    /\ amounts = {1}
    /\ ctx = "live"

\* for j := 0; j < updatesPerRoutine; j++ { start := time.Now(); err := ...
StartCall(w) ==
    /\ pc[w] = "loop"
    /\ j[w] < updatesPerRoutine
    /\ pc' = [pc EXCEPT ![w] = "call"]
    /\ UNCHANGED <<store, j, loc, latencyChan, accepted, rejected, failed,
                   faults, amounts, ctx>>

\* The strategy call returns nil: the worker goes on to the send.
ReturnNil(w) ==
    /\ pc[w] = "call"
    /\ pc' = [pc EXCEPT ![w] = "send"]
    /\ accepted' = accepted + 1
    /\ UNCHANGED <<store, j, loc, latencyChan, rejected, failed, faults,
                   amounts, ctx>>

\* The strategy call returns an error: log.Printf and continue.
ReturnError(w) ==
    /\ pc[w] = "call"
    /\ pc' = [pc EXCEPT ![w] = "loop"]
    /\ j' = [j EXCEPT ![w] = @ + 1]
    /\ failed' = failed + 1
    /\ UNCHANGED <<store, loc, latencyChan, accepted, rejected, faults,
                   amounts, ctx>>

\* latencyChan <- time.Since(start): the send proceeds when the buffer has
\* room (a send on a full channel blocks while nothing receives; a send on a
\* closed channel panics).
Send(w) ==
    /\ pc[w] = "send"
    /\ latencyChan < Capacity
    /\ IF loc[MainRoutine].closed
       THEN /\ pc' = [pc EXCEPT ![w] = "panic"]
            /\ UNCHANGED <<j, loc, latencyChan>>
       ELSE /\ latencyChan' = latencyChan + 1
            /\ loc' = [loc EXCEPT ![w].sent = @ + 1]
            /\ j' = [j EXCEPT ![w] = @ + 1]
            /\ pc' = [pc EXCEPT ![w] = "loop"]
    /\ UNCHANGED <<store, accepted, rejected, failed, faults, amounts, ctx>>

\* The loop ends and the deferred wg.Done() runs.
Done(w) ==
    /\ pc[w] = "loop"
    /\ j[w] = updatesPerRoutine
    /\ pc' = [pc EXCEPT ![w] = "done"]
    /\ UNCHANGED <<store, j, loc, latencyChan, accepted, rejected, failed,
                   faults, amounts, ctx>>

\* wg.Wait() returns once every worker has called wg.Done().
Wait ==
    /\ pc[MainRoutine] = "wait"
    /\ \A w \in Workers : pc[w] = "done"
    /\ pc' = [pc EXCEPT ![MainRoutine] = "close"]
    /\ UNCHANGED <<store, j, loc, latencyChan, accepted, rejected, failed,
                   faults, amounts, ctx>>

\* close(latencyChan); main goes on to the statistics.
Close ==
    /\ pc[MainRoutine] = "close"
    /\ loc' = [loc EXCEPT ![MainRoutine].closed = TRUE]
    /\ pc' = [pc EXCEPT ![MainRoutine] = "statistics"]
    /\ UNCHANGED <<store, j, latencyChan, accepted, rejected, failed, faults,
                   amounts, ctx>>

WorkerStep(w) ==
    StartCall(w) \/ ReturnNil(w) \/ ReturnError(w) \/ Send(w) \/ Done(w)

NextH ==
    \/ \E w \in Workers : StartCall(w)
    \/ \E w \in Workers : ReturnNil(w)
    \/ \E w \in Workers : ReturnError(w)
    \/ \E w \in Workers : Send(w)
    \/ \E w \in Workers : Done(w)
    \/ Wait
    \/ Close

\* Every strategy call returns, and the scheduler runs every goroutine that
\* can take a step.
SpecH ==
    /\ InitH
    /\ [][NextH]_vars
    /\ \A w \in Workers : WF_vars(WorkerStep(w))
    /\ WF_vars(Wait \/ Close)

C35_StatisticsSafe ==
    /\ pc[Reporter] # "panic"
    /\ (pc[Reporter] = "range" /\ latencyChan = <<>>)
          => /\ P95Index(loc[Reporter].count) \in 0..(loc[Reporter].count - 1)
             /\ loc[Reporter].count # 0

\* ------------------------------------------- the state created on first write
\* C36: on an absent key, UpdateLimiterState3 creates the state with its
\* first write; the state it creates has zero sliding and zero fixed
\* windows, so that call and every later call on the key passes the limit
\* check and returns nil for any amount (no limit is ever enforced), whereas
\* updateLimiterStateWithLock on an absent key creates one sliding and one
\* fixed window with limit 500 (the largest limit of the model) and count
\* equal to the amount.
C36_StateCreatedOnFirstWrite ==
    [][/\ (Runs3 /\ (store[key] = Absent \/ DocWindows(store[key][1]) = {})) =>
            /\ store'[key] # store[key] =>
                  store'[key] = Present(Marshal(LimiterState(<<>>, <<>>)))
            /\ \A w \in Workers3 :
                  /\ ~loc'[w].checkFailed
                  /\ (j'[w] = j[w] + 1 /\ faults' = faults) =>
                        /\ pc[w] = "exec"
                        /\ accepted' = accepted + loc[w].tokens
       /\ (RunsL /\ store[key] = Absent /\ store'[key] # Absent) =>
            \E w \in LockRoutines :
                /\ pc[w] = "write"
                /\ store'[key] =
                      Present(Marshal(LimiterState(
                          <<Window(loc[w].tokens, MaxLimit, "now")>>,
                          <<Window(loc[w].tokens, MaxLimit, "now")>>)))]_vars

\* C36 witness: on a key UpdateLimiterState3 created, the calls accepted so
\* far add up to more than the largest limit, and the stored state has no
\* window.
C36_Witness ==
    /\ Runs3
    /\ store[key] = Present(Marshal(LimiterState(<<>>, <<>>)))
    /\ accepted > MaxLimit
    /\ failed = 0

\* ------------------------------------------- main7's check on missing keys
\* updateLimiterState2 on keys of which some may not exist (expired, or
\* never set) and some may stand at the limit.
Init2A ==
    /\ HarnessInit(Workers)
    /\ store \in [WindowKeys -> {Absent, Present(0), Present(limit2)}]
    /\ loc = [w \in Workers |-> Locals2(0)]
Spec2A == Init2A /\ [][Next2]_vars

\* C37: updateLimiterState2 checks every window it can read: a call passes
\* the check only if stored count + tokens <= limit2 holds for every window
\* key that exists, also when another of the three window keys is absent or
\* the pipelined read returned an error.
C37_ChecksEveryExistingWindow ==
    [][\A w \in Workers :
          (pc[w] = "get" /\ pc'[w] = "incr")
              => \A k \in WindowKeys :
                    store[k] # Absent
                        => ToNumber(store[k]) + loc[w].tokens <= limit2]_vars

\* ------------------------------------ Atomic-Script with times-to-live
\* main8 with the time-to-live of its two keys: store holds, beside each
\* counter, the time the key has left to live (Absent: the key has no
\* time-to-live or does not exist).
slidingTTL == "ttl:ratelimit:sliding"
fixedTTL == "ttl:ratelimit:fixed"
TTLOf(k) == IF k = slidingKey THEN slidingTTL ELSE fixedTTL

\* rdb.Set(ctx, slidingKey, 0, 24*time.Hour); rdb.Set(ctx, fixedKey, 0, ...).
Init7T ==
    /\ HarnessInit(Workers)
    /\ store = [k \in {slidingKey, fixedKey, slidingTTL, fixedTTL} |->
                  IF k \in {slidingKey, fixedKey} THEN Present(0)
                  ELSE Present(TTLSeconds)]
    /\ loc = [w \in Workers |-> [tokens |-> 0]]

\* The worker calls updateLimiterState7(ctx, rdb, userID, endpointID, tokens).
Call7T(w) ==
    /\ pc[w] = "idle"
    /\ CallsStartedBy(Workers) < calls7T
    /\ \E t \in amounts : loc' = [loc EXCEPT ![w] = [tokens |-> t]]
    /\ pc' = [pc EXCEPT ![w] = "script"]
    /\ UNCHANGED <<store, j, latencyChan, accepted, rejected, failed, faults, amounts, ctx>>

\* Mutant: EXPIRE leaves the time-to-live as it is.
Expire_Never(st, k, seconds) == st

\* redis.call('EXPIRE', key, seconds): sets the time-to-live of a key that
\* exists.
Expire(st, k, seconds) ==
    IF st[k] = Absent THEN st ELSE [st EXCEPT ![TTLOf(k)] = Present(seconds)]

\* The whole script: the check and the two INCRBY, then, on the success
\* path only, the two EXPIRE.
ScriptWithTTL(st, increment, lim, seconds) ==
    LET r == checkAndIncrementScript(st, increment, lim)
    IN  IF r.result[3] = 1
        THEN [st |-> Expire(Expire(r.st, slidingKey, seconds), fixedKey, seconds),
              result |-> r.result]
        ELSE r

\* checkAndIncrementScript.Run(ctx, rdb, keys, tokens, limit3, 24*60*60)
\* executed by the server in one step, the parse of its result, and the
\* return to the worker loop.
updateLimiterState7T(w) ==
    /\ pc[w] = "script"
    /\ LET r == ScriptWithTTL(store, loc[w].tokens, limit3, TTLSeconds)
           err == IF r.result[3] # 1 THEN "rate limit exceeded" ELSE "nil"
       IN  /\ store' = r.st
           /\ loc' = [loc EXCEPT ![w] = [tokens |-> 0]]
           /\ WorkerReturn(w, err)
    /\ UNCHANGED <<faults, amounts, ctx>>

\* One unit of time passes on the server: every time-to-live goes down by
\* one, and a key whose time-to-live ends is deleted.
Tick ==
    /\ \E k \in {slidingKey, fixedKey} : store[TTLOf(k)] # Absent
    /\ store' =
          [x \in DOMAIN store |->
              IF x \in {slidingKey, fixedKey}
              THEN IF store[TTLOf(x)] = Present(1) THEN Absent ELSE store[x]
              ELSE IF store[x] = Absent \/ store[x] = Present(1) THEN Absent
                   ELSE Present(store[x][1] - 1)]
    /\ UNCHANGED <<pc, j, loc, latencyChan, accepted, rejected, failed, faults,
                   amounts, ctx>>

Next7T ==
    \/ \E w \in Workers : Call7T(w)
    \/ \E w \in Workers : updateLimiterState7T(w)
    \/ \E w \in Workers : ScriptError7(w)
    \/ Tick
Spec7T == Init7T /\ [][Next7T]_vars

\* C38: the two counters of the Atomic-Script strategy move together:
\* starting from sliding = fixed, in every reachable state the sliding counter
\* equals the fixed counter, and a rejected execution changes neither a
\* counter nor a key's time-to-live while an accepted one raises both
\* counters by the amount and refreshes both time-to-live values in the same
\* atomic step.
C38_CountersMoveTogether ==
    /\ [](ToNumber(store[slidingKey]) = ToNumber(store[fixedKey]))
    /\ [][\A w \in Workers :
            (pc[w] = "script" /\ j'[w] = j[w] + 1 /\ faults' = faults)
                => IF accepted' = accepted
                   THEN /\ rejected' = rejected + 1
                        /\ store' = store
                   ELSE /\ accepted' = accepted + loc[w].tokens
                        /\ \A k \in {slidingKey, fixedKey} :
                              /\ store'[k] =
                                    Present(ToNumber(store[k]) + loc[w].tokens)
                              /\ store'[TTLOf(k)] = Present(TTLSeconds)]_vars

\* C38 witness: after time has passed, calls have been accepted up to the
\* limit and a call has been rejected; the counters are equal and the
\* time-to-live of both keys is the one the last accepted call set, less the
\* time passed since.
C38_Witness ==
    /\ rejected > 0
    /\ store[slidingKey] = Present(limit3)
    /\ store[fixedKey] = Present(limit3)
    /\ store[slidingTTL] = Present(TTLSeconds - 1)
    /\ store[fixedTTL] = Present(TTLSeconds - 1)
    /\ \E w \in Workers : pc[w] = "script"

====
